---- MODULE Spec2Model ----
(***************************************************************************)
(* A model of the server-side streaming HTML renderer's format config      *)
(* (ReactDOMServerFormatConfig.js) and its resource registry               *)
(* (ReactDOMFloatServer.js), with enableFloat on.                          *)
(*                                                                         *)
(* A chunk written to a target or to the destination is a record           *)
(*   [t |-> what is written, h |-> its href/src, x |-> as / precedence /   *)
(*    insertion level, q |-> the queue or buffer it was written from].     *)
(* t, h and x are what the bytes say; q is bookkeeping of the model that   *)
(* names the place in the code that wrote the chunk.                       *)
(***************************************************************************)
EXTENDS Integers, Sequences, FiniteSets, TLC

VARIABLES
  resources,      \* Resources (ReactDOMFloatServer.js createResources)
  boundaries,     \* BoundaryResources of each suspense boundary
  responseState,  \* ResponseState (createResponseState)
  task,           \* the walker: its format context and the elements it has open
  segment,        \* the target the walker is pushing chunks to
  destination,    \* every chunk written to the Destination, in order
  lastOut,        \* the chunks written by the last write* call
  lastOp,         \* the last operation called and its arguments
  driver,         \* where the request is in its life: what was called so far
  currentResources,       \* the Resources the dispatcher registers into, or Null
  currentResourcesStack,  \* what currentResources was before each open bracket
  otherResources,         \* the Resources of another request rendered meanwhile
  streamConfig,   \* currentView and writtenBytes (ReactServerStreamConfigBrowser.js)
  newContext      \* the contexts, the propagation state and the value stack
                  \* (ReactFiberNewContext.js)

vars == <<resources, boundaries, responseState, task, segment, destination,
          lastOut, lastOp, driver, currentResources, currentResourcesStack,
          otherResources, streamConfig, newContext>>

(***************************************************************************)
(* Bounds of the model.                                                    *)
(***************************************************************************)
MaxWrites == 2    \* flushes of the registry in one response
MaxRegs == 2      \* registrations of resources in one response
MaxPush == 2      \* elements the walker starts in one response

(***************************************************************************)
(* Input domains.                                                          *)
(***************************************************************************)
Hrefs == {"a", "b"}
RuntimeSrc == "rt"
Precedences == {"p1", "p2"}
ResourceTypes == {"font", "style", "script"}
Boundaries == {"B:0"}
Undefined == "undefined"
Null == "null"

(***************************************************************************)
(* DocumentStructureTag bit flags and the insertion modes.                 *)
(***************************************************************************)
NONE == 0
HTML == 1
HEAD == 2
BODY == 4
HTML_HEAD_OR_BODY == 7
FLOW == 8

ROOT_HTML_MODE == 0
HTML_HTML_MODE == 1
HTML_MODE == 2
SVG_MODE == 3
MATHML_MODE == 4
HTML_TABLE_MODE == 5
HTML_TABLE_BODY_MODE == 6
HTML_TABLE_ROW_MODE == 7
HTML_COLGROUP_MODE == 8

RECURSIVE BitAnd(_, _)
BitAnd(a, b) ==
  IF a = 0 \/ b = 0 THEN 0
  ELSE (a % 2) * (b % 2) + 2 * BitAnd(a \div 2, b \div 2)

RECURSIVE BitOr(_, _)
BitOr(a, b) ==
  IF a = 0 THEN b
  ELSE IF b = 0 THEN a
  ELSE (IF a % 2 = 1 \/ b % 2 = 1 THEN 1 ELSE 0) + 2 * BitOr(a \div 2, b \div 2)

(***************************************************************************)
(* Insertion-ordered Set and Map of the source, as sequences without       *)
(* duplicates and functions on the keys present.                           *)
(***************************************************************************)
Range(s) == {s[i] : i \in DOMAIN s}

SetAdd(s, e) == IF e \in Range(s) THEN s ELSE Append(s, e)

\* source.forEach(e => s.add(e))
SetAddAll(s, source) ==
  LET add[i \in 0..Len(source)] == IF i = 0 THEN s ELSE SetAdd(add[i - 1], source[i])
  IN add[Len(source)]

MapSet(m, k, v) == [x \in DOMAIN m \cup {k} |-> IF x = k THEN v ELSE m[x]]

EmptyMap == [x \in {} |-> Null]

(***************************************************************************)
(* Chunks.                                                                 *)
(***************************************************************************)
Chunk(t, h, x, q) == [t |-> t, h |-> h, x |-> x, q |-> q]

\* pushLinkImpl of a preload resource's props: <link rel="preload" as= href=>
PreloadLink(href, as, q) == Chunk("link:preload", href, as, q)
\* pushLinkImpl of a style resource's props: <link rel="stylesheet" href= data-precedence=>
StylesheetLink(href, precedence, q) == Chunk("link:stylesheet", href, precedence, q)
\* pushScriptImpl of a script resource's props: <script src= async>
ScriptTag(src, q) == Chunk("script", src, "", q)
\* <style data-precedence="..."></style>
PrecedencePlaceholder(precedence) == Chunk("style:placeholder", "", precedence, "precedences")

(***************************************************************************)
(* createResources                                                         *)
(***************************************************************************)
PreloadOptions(as, crossOrigin) == [as |-> as, crossOrigin |-> crossOrigin]

PreinitOptions(as, precedence, crossOrigin) ==
  [as |-> as, precedence |-> precedence, crossOrigin |-> crossOrigin]

createResources ==
  [ preloadsMap |-> EmptyMap,
    stylesMap |-> EmptyMap,
    scriptsMap |-> EmptyMap,
    bases |-> <<>>,
    preconnects |-> <<>>,
    fontPreloads |-> <<>>,
    firstPrecedence |-> "",
    firstPrecedenceFlushed |-> FALSE,
    precedenceOrder |-> <<>>,      \* the keys of the precedences Map, in insertion order
    precedences |-> EmptyMap,      \* precedence -> Set<StyleResource>, by href
    usedStylePreloads |-> <<>>,
    scripts |-> <<>>,
    usedScriptPreloads |-> <<>>,
    explicitStylePreloads |-> <<>>,
    explicitScriptPreloads |-> <<>>,
    headResources |-> <<>>,
    boundaryResources |-> Null ]

createBoundaryResources == <<>>

\* the resource objects created for one key of a map are told apart by gen, the
\* number of objects created for that key before: map.set(key, resource)
\* replaces what the map held
NextGen(map, key) == IF key \in DOMAIN map THEN map[key].gen + 1 ELSE 0

\* the hint of a style or script resource is the PreloadResource it was given
\* when it was created, named by its gen
\* props holds the crossOrigin prop of the resource
createPreloadResource(res, href, as, props) ==
  [res EXCEPT !.preloadsMap =
     MapSet(@, href, [as |-> as, flushed |-> FALSE, gen |-> NextGen(@, href),
                      props |-> props])]

\* the props of a resource that gives crossOrigin
Props(crossOrigin) == [crossOrigin |-> crossOrigin]

IsNullish(v) == v \in {Null, Undefined}

\* what is pushed or written of a tag or an instruction before the call
\* throws: its start, without its end
Unterminated(t, script1) == Chunk(t, "", script1, "unterminated")

\* props has a children or a dangerouslySetInnerHTML that is not null
HasContent(props) ==
  \/ "children" \in DOMAIN props /\ ~IsNullish(props.children)
  \/ "dangerouslySetInnerHTML" \in DOMAIN props
     /\ ~IsNullish(props.dangerouslySetInnerHTML)

\* Object.assign({}, rawProps), as far as children goes
CopyChildren(props, rawProps) ==
  IF "children" \in DOMAIN rawProps
  THEN [crossOrigin |-> props.crossOrigin, children |-> rawProps.children]
  ELSE props

preloadPropsFromPreloadOptions(as, options) ==
  Props(IF as = "font" THEN "" ELSE options.crossOrigin)

preloadPropsFromRawProps(as, rawProps) ==
  CopyChildren(Props(IF as = "font" THEN "" ELSE rawProps.crossOrigin), rawProps)

preloadAsStylePropsFromProps(props) == Props(props.crossOrigin)

preloadAsScriptPropsFromProps(props) == Props(props.crossOrigin)

stylePropsFromRawProps(rawProps) == CopyChildren(Props(rawProps.crossOrigin), rawProps)

stylePropsFromPreinitOptions(options) == Props(options.crossOrigin)

scriptPropsFromPreinitOptions(options) == Props(options.crossOrigin)

scriptPropsFromRawProps(rawProps) == Props(rawProps.crossOrigin)

\* adoptPreloadPropsForStyleProps overwriting the props the resource gives
adoptPreloadPropsForStyleProps_Always(resourceProps, preloadProps) ==
  [resourceProps EXCEPT !.crossOrigin = preloadProps.crossOrigin]

\* referrerPolicy and title are adopted by the same test as crossOrigin
adoptPreloadPropsForStyleProps(resourceProps, preloadProps) ==
  [resourceProps EXCEPT
     !.crossOrigin = IF IsNullish(@) THEN preloadProps.crossOrigin ELSE @]

\* referrerPolicy and integrity are adopted by the same test as crossOrigin
adoptPreloadPropsForScriptProps(resourceProps, preloadProps) ==
  [resourceProps EXCEPT
     !.crossOrigin = IF IsNullish(@) THEN preloadProps.crossOrigin ELSE @]

\* createStyleResource with a hint that is always newly created
createStyleResource_FreshHint(res, href, precedence, props) ==
  LET seen == precedence \in DOMAIN res.precedences
      r1 == IF seen THEN res
            ELSE [res EXCEPT
                    !.precedences = MapSet(@, precedence, <<>>),
                    !.precedenceOrder = Append(@, precedence),
                    !.firstPrecedence = IF res.firstPrecedence = "" THEN precedence ELSE @]
      c == createPreloadResource(r1, href, "style", preloadAsStylePropsFromProps(props))
      r2 == [c EXCEPT !.explicitStylePreloads = SetAdd(@, href)]
  IN [r2 EXCEPT !.stylesMap =
        MapSet(@, href, [precedence |-> precedence, flushed |-> FALSE, inShell |-> FALSE,
                         hint |-> r2.preloadsMap[href].gen,
                         gen |-> NextGen(@, href), props |-> props])]

createStyleResource(res, href, precedence, props) ==
  LET seen == precedence \in DOMAIN res.precedences
      r1 == IF seen THEN res
            ELSE [res EXCEPT
                    !.precedences = MapSet(@, precedence, <<>>),
                    !.precedenceOrder = Append(@, precedence),
                    !.firstPrecedence = IF res.firstPrecedence = "" THEN precedence ELSE @]
      hinted == href \in DOMAIN r1.preloadsMap
      props1 == IF hinted
                THEN adoptPreloadPropsForStyleProps(props, r1.preloadsMap[href].props)
                ELSE props
      r2 == IF hinted THEN r1
            ELSE LET c == createPreloadResource(r1, href, "style",
                                                preloadAsStylePropsFromProps(props))
                 IN [c EXCEPT !.explicitStylePreloads = SetAdd(@, href)]
  IN [r2 EXCEPT !.stylesMap =
        MapSet(@, href, [precedence |-> precedence, flushed |-> FALSE, inShell |-> FALSE,
                         hint |-> r2.preloadsMap[href].gen,
                         gen |-> NextGen(@, href), props |-> props1])]

createScriptResource(res, src, props) ==
  LET hinted == src \in DOMAIN res.preloadsMap
      props1 == IF hinted
                THEN adoptPreloadPropsForScriptProps(props, res.preloadsMap[src].props)
                ELSE props
      r1 == IF hinted THEN res
            ELSE LET c == createPreloadResource(res, src, "script",
                                                preloadAsScriptPropsFromProps(props))
                 IN [c EXCEPT !.explicitScriptPreloads = SetAdd(@, src)]
  IN [r1 EXCEPT !.scriptsMap =
        MapSet(@, src, [flushed |-> FALSE, hint |-> r1.preloadsMap[src].gen,
                        gen |-> NextGen(@, src), props |-> props1])]

\* resource.set.add(resource)
AddToPrecedenceSet(res, href) ==
  LET p == res.stylesMap[href].precedence
  IN [res EXCEPT !.precedences[p] = SetAdd(@, href)]

(***************************************************************************)
(* preload and preinit of the Float dispatcher                             *)
(***************************************************************************)
\* preload registering whether or not a Resources is current
preload_NoGuard(current, res, href, options) ==
  IF href = "" THEN res
  ELSE
    LET as == options.as
        r1 == IF href \in DOMAIN res.preloadsMap THEN res
              ELSE createPreloadResource(res, href, as,
                                         preloadPropsFromPreloadOptions(as, options))
    IN CASE as = "font" -> [r1 EXCEPT !.fontPreloads = SetAdd(@, href)]
         [] as = "style" -> [r1 EXCEPT !.explicitStylePreloads = SetAdd(@, href)]
         [] as = "script" -> [r1 EXCEPT !.explicitScriptPreloads = SetAdd(@, href)]
         [] OTHER -> r1

\* preload with queues that keep duplicates
preload_NoDedup(current, res, href, options) ==
  IF current = Null \/ href = "" THEN res
  ELSE
    LET as == options.as
        r1 == IF href \in DOMAIN res.preloadsMap THEN res
              ELSE createPreloadResource(res, href, as,
                                         preloadPropsFromPreloadOptions(as, options))
    IN CASE as = "font" -> [r1 EXCEPT !.fontPreloads = Append(@, href)]
         [] as = "style" -> [r1 EXCEPT !.explicitStylePreloads = Append(@, href)]
         [] as = "script" -> [r1 EXCEPT !.explicitScriptPreloads = Append(@, href)]
         [] OTHER -> r1

preload(current, res, href, options) ==
  IF current = Null \/ href = "" THEN res
  ELSE
    LET as == options.as
        r1 == IF href \in DOMAIN res.preloadsMap THEN res
              ELSE createPreloadResource(res, href, as,
                                         preloadPropsFromPreloadOptions(as, options))
    IN CASE as = "font" -> [r1 EXCEPT !.fontPreloads = SetAdd(@, href)]
         [] as = "style" -> [r1 EXCEPT !.explicitStylePreloads = SetAdd(@, href)]
         [] as = "script" -> [r1 EXCEPT !.explicitScriptPreloads = SetAdd(@, href)]
         [] OTHER -> r1

preinitImpl(res, href, options) ==
  IF href = "" THEN res
  ELSE
    LET as == options.as
        precedence == options.precedence
    IN
    CASE as = "style" ->
           LET r1 == IF href \in DOMAIN res.stylesMap THEN res
                     ELSE createStyleResource(res, href,
                            IF precedence = Undefined THEN "default" ELSE precedence,
                            stylePropsFromPreinitOptions(options))
               r2 == AddToPrecedenceSet(r1, href)
           IN [r2 EXCEPT !.explicitStylePreloads = SetAdd(@, href)]
      [] as = "script" ->
           IF href \in DOMAIN res.scriptsMap THEN res
           ELSE LET r1 == createScriptResource(res, href,
                                               scriptPropsFromPreinitOptions(options))
                IN [r1 EXCEPT !.scripts = SetAdd(@, href)]
      [] OTHER -> res

\* preinit of the dispatcher: current is currentResources
preinit(current, res, href, options) ==
  IF current = Null THEN res ELSE preinitImpl(res, href, options)

\* the one Resources of the request, as a value of currentResources
RequestResources == "resources"

(***************************************************************************)
(* ReactServerStreamConfigBrowser.js: the view that chunks are copied to.  *)
(***************************************************************************)
\* the bytes of the view; 512 in the code
ViewSize == 3

\* currentView = null is the empty sequence here: a view is never empty
resetView == [currentView |-> <<>>, writtenBytes |-> 0]

\* new Uint8Array(new ArrayBuffer(ViewSize)): a view of zeros
prepareNewView == [currentView |-> [i \in 1 .. ViewSize |-> 0], writtenBytes |-> 0]

\* returns [view, enqueued, threw]: `destination` is not a binding of
\* flushViewIfFull or of the module, so that reading it throws
flushViewIfFull(view, chunk) ==
  IF Len(chunk) + view.writtenBytes > Len(view.currentView)
  THEN [view |-> view, enqueued |-> <<>>, threw |-> TRUE]
  ELSE [view |-> view, enqueued |-> <<>>, threw |-> FALSE]

\* copyToView that copies no byte
copyToView_Skip(view, chunk) ==
  [view |-> [view EXCEPT !.writtenBytes = @ + Len(chunk)], threw |-> FALSE]

\* returns [view, threw]
copyToView(view, chunk) ==
  IF Len(chunk) > Len(view.currentView) THEN [view |-> view, threw |-> TRUE]
  ELSE IF view.writtenBytes + Len(chunk) > Len(view.currentView)
  THEN [view |-> view, threw |-> TRUE]
  ELSE [view |-> [currentView |->
                    [i \in 1 .. Len(view.currentView) |->
                       IF i > view.writtenBytes /\ i <= view.writtenBytes + Len(chunk)
                       THEN chunk[i - view.writtenBytes] ELSE view.currentView[i]],
                  writtenBytes |-> view.writtenBytes + Len(chunk)],
        threw |-> FALSE]

\* writeChunk and writeChunkAndReturn; returns [view, enqueued, threw]
writeChunk(view, chunk) ==
  LET flushed == flushViewIfFull(view, chunk)
      copied == copyToView(flushed.view, chunk)
  IN IF flushed.threw THEN flushed
     ELSE [view |-> copied.view, enqueued |-> flushed.enqueued, threw |-> copied.threw]

\* destination.enqueue(currentView); resetView(): returns [view, enqueued]
completeWriting(view) ==
  [view |-> resetView, enqueued |-> <<view.currentView>>]

(***************************************************************************)
(* ReactFiberNewContext.js: providers pushed and popped.                   *)
(***************************************************************************)
Contexts == {"A", "B"}

\* the module state before any provider is pushed: every context holds its
\* default value, 0 stands for null, and sigils counts the objects created
\* for propagationSigil
createContexts ==
  [contexts |-> [c \in Contexts |-> [currentValue |-> 0, currentChangedBits |-> 0]],
   contextSet |-> {},
   propagationSigil |-> 0,
   propagationHasChangedBits |-> FALSE,
   valueCursor |-> 0,
   valueStack |-> <<>>,
   sigils |-> 0]

\* push(valueCursor, value, fiber) of ReactFiberStack
push(nc, value) ==
  [nc EXCEPT !.valueStack = Append(@, nc.valueCursor), !.valueCursor = value]

\* pop(valueCursor, fiber) of ReactFiberStack
pop(nc) ==
  IF nc.valueStack = <<>> THEN nc
  ELSE [nc EXCEPT !.valueCursor = nc.valueStack[Len(nc.valueStack)],
                  !.valueStack = SubSeq(@, 1, Len(@) - 1)]

someChangedBits(nc) ==
  \E context \in nc.contextSet : nc.contexts[context].currentChangedBits > 0

\* with enableIncrementalUnifiedContextPropagation, in the primary renderer
pushProvider(nc, context, nextValue, nextChangedBits) ==
  LET nc0 == [nc EXCEPT !.contextSet = @ \cup {context}]
      currentChangedBits == nc0.contexts[context].currentChangedBits
      nextPropagationHasChangedBits ==
        \/ nextChangedBits > 0
        \/ currentChangedBits > 0 /\ someChangedBits(nc0)
        \/ nc0.propagationHasChangedBits
      nc1 == [push(nc0, currentChangedBits) EXCEPT
                !.contexts[context].currentChangedBits = nextChangedBits]
      nc2 == [push(nc1, nc1.propagationHasChangedBits) EXCEPT
                !.propagationHasChangedBits = nextPropagationHasChangedBits]
      nc3 == [push(nc2, nc2.propagationSigil) EXCEPT
                !.propagationSigil = nc2.sigils + 1, !.sigils = @ + 1]
  IN [push(nc3, nc3.contexts[context].currentValue) EXCEPT
        !.contexts[context].currentValue = nextValue]

\* popProvider restoring the changed bits where the sigil belongs
popProvider_Swapped(nc, context) ==
  LET nc1 == [pop(nc) EXCEPT !.contexts[context].currentValue = nc.valueCursor]
      nc2 == [pop(nc1) EXCEPT !.propagationSigil = nc1.valueCursor]
      nc3 == [pop(nc2) EXCEPT !.propagationHasChangedBits = nc2.valueCursor]
  IN [pop(nc3) EXCEPT !.propagationSigil = nc3.valueCursor]

popProvider(nc, context) ==
  LET nc1 == [pop(nc) EXCEPT !.contexts[context].currentValue = nc.valueCursor]
      nc2 == [pop(nc1) EXCEPT !.propagationSigil = nc1.valueCursor]
      nc3 == [pop(nc2) EXCEPT !.propagationHasChangedBits = nc2.valueCursor]
  IN [pop(nc3) EXCEPT !.contexts[context].currentChangedBits = nc3.valueCursor]

\* the Resources of another request, as a value of currentResources
OtherResources == "other"

prepareToRenderResources(r, current, stack) ==
  [currentResources |-> r, currentResourcesStack |-> Append(stack, current)]

\* finishRenderingResources leaving no Resources current
finishRenderingResources_Null(current, stack) ==
  [currentResources |-> Null,
   currentResourcesStack |-> SubSeq(stack, 1, Len(stack) - 1)]

\* of a stack that is not empty
finishRenderingResources(current, stack) ==
  [currentResources |-> stack[Len(stack)],
   currentResourcesStack |-> SubSeq(stack, 1, Len(stack) - 1)]

(***************************************************************************)
(* Boundary resources                                                      *)
(***************************************************************************)
setCurrentlyRenderingBoundaryResourcesTarget(res, b) ==
  [res EXCEPT !.boundaryResources = b]

\* returns [res, bnd]: each resource of the boundary is added to its own
\* precedence set, and the boundary's set is cleared
\* hoistResources without source.clear()
hoistResources_NoClear(res, bnd, source) ==
  LET currentBoundaryResources == res.boundaryResources
  IN IF currentBoundaryResources # Null
     THEN [bnd EXCEPT ![currentBoundaryResources] = SetAddAll(@, bnd[source])]
     ELSE bnd

hoistResources(res, bnd, source) ==
  LET currentBoundaryResources == res.boundaryResources
  IN IF currentBoundaryResources # Null
     THEN [bnd EXCEPT ![currentBoundaryResources] = SetAddAll(@, bnd[source]),
                      ![source] = <<>>]
     ELSE bnd

hoistResourcesToRoot(res, bnd, b) ==
  LET add[i \in 0..Len(bnd[b])] ==
        IF i = 0 THEN res ELSE AddToPrecedenceSet(add[i - 1], bnd[b][i])
  IN [res |-> add[Len(bnd[b])], bnd |-> [bnd EXCEPT ![b] = <<>>]]

(***************************************************************************)
(* Elements that may become resources or hoistables: link, script, meta,   *)
(* title.  Each returns [res, bnd, rs, target].                            *)
(***************************************************************************)
textSeparator == Chunk("<!-- -->", "", "", "inplace")

\* pushTextInstance of a non-empty text
pushTextInstance(target, textEmbedded) ==
  Append(IF textEmbedded THEN Append(target, textSeparator) ELSE target,
         Chunk("text", "", "", "inplace"))

\* whether the last thing pushed to the segment was text
lastPushedText(target) == target # <<>> /\ target[Len(target)].t = "text"

\* pushLinkImpl of an element's own props; the precedence prop of a stylesheet
\* is not written
LinkChunk(props, q) ==
  CASE props.rel = "stylesheet" -> Chunk("link:stylesheet", props.href, "", q)
    [] props.rel = "preload" -> Chunk("link:preload", props.href, props.as, q)
    [] OTHER -> Chunk("link", props.href, props.rel, q)

\* throws for a link with content, after it pushed the start of the tag
pushLinkImpl(target, props, q) ==
  Append(target, IF HasContent(props) THEN Unterminated("link", "<link")
                 ELSE LinkChunk(props, q))

pushScriptImpl(target, props, q) == Append(target, ScriptTag(props.src, q))

pushTitleImpl(target, q) == Append(target, Chunk("title", "", "", q))

pushSelfClosingMeta(target, props, q) ==
  Append(target, Chunk(IF props.charSet THEN "meta:charset" ELSE "meta", "", "", q))

\* what a push leaves and returns: children is what is returned to recurse
\* into, threw tells that the push threw
PushResult(res, bnd, rs, target) ==
  [res |-> res, bnd |-> bnd, rs |-> rs, target |-> target, children |-> Null,
   threw |-> FALSE]

\* the result of a push that called pushLinkImpl with props
PushLinkImplResult(props, res, bnd, rs, target) ==
  [res |-> res, bnd |-> bnd, rs |-> rs, target |-> target, children |-> Null,
   threw |-> HasContent(props)]

\* pushLink's stylesheet branch creating the style resource on every render
pushLinkStylesheet_Recreate(t1, props, rs, res, bnd) ==
  LET href == props.href
      c == createStyleResource(res, href, props.precedence, stylePropsFromRawProps(props))
      r1 == [c EXCEPT !.usedStylePreloads = SetAdd(@, href)]
  IN IF r1.boundaryResources # Null
     THEN PushResult(r1, [bnd EXCEPT ![r1.boundaryResources] = SetAdd(@, href)], rs, t1)
     ELSE PushResult(AddToPrecedenceSet(r1, href), bnd, rs, t1)

pushLinkStylesheet(t1, props, rs, res, bnd) ==
  LET href == props.href IN
  IF props.precedence = Undefined \/ props.handlers \/ props.disabled
  THEN \* not a Resource: a preload is created for it, and it is written in place
    LET r1 == IF href \in DOMAIN res.preloadsMap THEN res
              ELSE LET c == createPreloadResource(res, href, "style",
                                                  preloadAsStylePropsFromProps(props))
                   IN [c EXCEPT !.usedStylePreloads = SetAdd(@, href)]
    IN PushLinkImplResult(props, r1, bnd, rs, pushLinkImpl(t1, props, "inplace"))
  ELSE
    LET r1 == IF href \in DOMAIN res.stylesMap THEN res
              ELSE LET c == createStyleResource(res, href, props.precedence,
                                                stylePropsFromRawProps(props))
                   IN [c EXCEPT !.usedStylePreloads = SetAdd(@, href)]
    IN IF r1.boundaryResources # Null
       THEN PushResult(r1, [bnd EXCEPT ![r1.boundaryResources] = SetAdd(@, href)], rs, t1)
       ELSE PushResult(AddToPrecedenceSet(r1, href), bnd, rs, t1)

pushLinkPreload(t1, props, rs, res, bnd) ==
  LET href == props.href
      as == props.as
      r1 == IF href \in DOMAIN res.preloadsMap THEN res
            ELSE LET c == createPreloadResource(res, href, as,
                                                preloadPropsFromRawProps(as, props))
                 IN CASE as = "script" -> [c EXCEPT !.explicitScriptPreloads = SetAdd(@, href)]
                      [] as = "style" -> [c EXCEPT !.explicitStylePreloads = SetAdd(@, href)]
                      [] as = "font" -> [c EXCEPT !.fontPreloads = SetAdd(@, href)]
  IN PushResult(r1, bnd, rs, t1)

pushLink(target, props, rs, res, bnd, textEmbedded, noscriptTagInScope) ==
  IF noscriptTagInScope
  THEN PushLinkImplResult(props, res, bnd, rs, pushLinkImpl(target, props, "inplace"))
  ELSE
    LET t1 == IF textEmbedded THEN Append(target, textSeparator) ELSE target IN
    IF props.href = "" \/ props.rel = ""
    THEN PushResult(res, bnd, rs, t1)
    ELSE IF props.rel = "stylesheet"
    THEN pushLinkStylesheet(t1, props, rs, res, bnd)
    ELSE IF props.rel = "preload" /\ props.as \in ResourceTypes
    THEN pushLinkPreload(t1, props, rs, res, bnd)
    ELSE IF props.handlers
    THEN PushResult(res, bnd, rs, t1)
    ELSE PushLinkImplResult(props, res, bnd,
           [rs EXCEPT !.hoistableChunks = pushLinkImpl(@, props, "hoistableChunks")], t1)

\* pushScript making a script resource of every async script, handlers or not
pushScript_Managed(target, props, rs, res, bnd, textEmbedded, noscriptTagInScope) ==
  IF ~noscriptTagInScope /\ props.src = ""
  THEN PushResult(res, bnd, rs, pushScriptImpl(target, props, "inplace"))
  ELSE IF ~noscriptTagInScope /\ props.async
  THEN
    LET src == props.src
        r1 == IF src \in DOMAIN res.scriptsMap THEN res
              ELSE LET c == createScriptResource(res, src, scriptPropsFromRawProps(props))
                   IN [c EXCEPT !.scripts = SetAdd(@, src)]
    IN PushResult(r1, bnd, rs,
                  IF textEmbedded THEN Append(target, textSeparator) ELSE target)
  ELSE PushResult(res, bnd, rs, pushScriptImpl(target, props, "inplace"))

pushScript(target, props, rs, res, bnd, textEmbedded, noscriptTagInScope) ==
  IF ~noscriptTagInScope /\ props.src = ""
  THEN PushResult(res, bnd, rs, pushScriptImpl(target, props, "inplace"))
  ELSE IF ~noscriptTagInScope /\ props.async
  THEN
    LET src == props.src
        r1 == IF props.handlers
              THEN IF src \in DOMAIN res.preloadsMap THEN res
                   ELSE LET c == createPreloadResource(res, src, "script",
                                                       preloadAsScriptPropsFromProps(props))
                        IN [c EXCEPT !.usedScriptPreloads = SetAdd(@, src)]
              ELSE IF src \in DOMAIN res.scriptsMap THEN res
                   ELSE LET c == createScriptResource(res, src, scriptPropsFromRawProps(props))
                        IN [c EXCEPT !.scripts = SetAdd(@, src)]
    IN PushResult(r1, bnd, rs,
                  IF textEmbedded THEN Append(target, textSeparator) ELSE target)
  ELSE PushResult(res, bnd, rs, pushScriptImpl(target, props, "inplace"))

\* pushMeta hoisting the tag inside <noscript> too
pushMeta_Hoisting(target, props, rs, res, bnd, textEmbedded, noscriptTagInScope) ==
  LET t1 == IF textEmbedded THEN Append(target, textSeparator) ELSE target IN
  IF props.charSet
  THEN PushResult(res, bnd,
         [rs EXCEPT !.charsetChunks = pushSelfClosingMeta(@, props, "charsetChunks")], t1)
  ELSE PushResult(res, bnd,
         [rs EXCEPT !.hoistableChunks = pushSelfClosingMeta(@, props, "hoistableChunks")], t1)

pushMeta(target, props, rs, res, bnd, textEmbedded, noscriptTagInScope) ==
  IF noscriptTagInScope
  THEN PushResult(res, bnd, rs, pushSelfClosingMeta(target, props, "inplace"))
  ELSE
    LET t1 == IF textEmbedded THEN Append(target, textSeparator) ELSE target IN
    IF props.charSet
    THEN PushResult(res, bnd,
           [rs EXCEPT !.charsetChunks = pushSelfClosingMeta(@, props, "charsetChunks")], t1)
    ELSE PushResult(res, bnd,
           [rs EXCEPT !.hoistableChunks = pushSelfClosingMeta(@, props, "hoistableChunks")], t1)

pushTitle(target, rs, res, bnd, insertionMode, noscriptTagInScope) ==
  IF insertionMode = SVG_MODE \/ noscriptTagInScope
  THEN PushResult(res, bnd, rs, pushTitleImpl(target, "inplace"))
  ELSE PushResult(res, bnd,
         [rs EXCEPT !.hoistableChunks = pushTitleImpl(@, "hoistableChunks")], target)

(***************************************************************************)
(* Flushing the registry's queues.  Each step takes and returns            *)
(* [res, out]: the registry and the target of the write* call.             *)
(***************************************************************************)
MapSeq(s, F(_)) == [i \in 1..Len(s) |-> F(s[i])]

MarkPreloads(pm, hs) ==
  [h \in DOMAIN pm |-> IF h \in hs THEN [pm[h] EXCEPT !.flushed = TRUE] ELSE pm[h]]

\* r.hint.flushed = true for the resources hs of map: the object marked is the hint
\* the resource holds, which preloadsMap shows only while it holds that object
MarkHints(pm, map, hs) ==
  [h \in DOMAIN pm |->
    IF h \in hs /\ map[h].hint = pm[h].gen THEN [pm[h] EXCEPT !.flushed = TRUE] ELSE pm[h]]

\* queue.forEach(flushLinkResource) without queue.clear()
FlushLinkQueue_NoClear(st, qname) ==
  LET queue == st.res[qname]
      pm == st.res.preloadsMap
      todo == SelectSeq(queue, LAMBDA h : ~pm[h].flushed)
  IN [res |-> [st.res EXCEPT !.preloadsMap = MarkPreloads(pm, Range(todo))],
      out |-> st.out \o MapSeq(todo, LAMBDA h : PreloadLink(h, pm[h].as, qname))]

\* queue.forEach(flushLinkResource); queue.clear(): a preload already flushed is skipped
FlushLinkQueue(st, qname) ==
  LET queue == st.res[qname]
      pm == st.res.preloadsMap
      todo == SelectSeq(queue, LAMBDA h : ~pm[h].flushed)
  IN [res |-> [st.res EXCEPT !.preloadsMap = MarkPreloads(pm, Range(todo)),
                             ![qname] = <<>>],
      out |-> st.out \o MapSeq(todo, LAMBDA h : PreloadLink(h, pm[h].as, qname))]

\* fontPreloads.forEach(r => {pushLinkImpl(...); r.flushed = true}): no check of r.flushed
FlushFontPreloads(st) ==
  LET queue == st.res.fontPreloads
      pm == st.res.preloadsMap
  IN [res |-> [st.res EXCEPT !.preloadsMap = MarkPreloads(pm, Range(queue)),
                             !.fontPreloads = <<>>],
      out |-> st.out \o MapSeq(queue, LAMBDA h : PreloadLink(h, pm[h].as, "fontPreloads"))]

\* bases, preconnects, headResources: written without a check, then cleared
FlushHeadQueue(st, qname) ==
  [res |-> [st.res EXCEPT ![qname] = <<>>],
   out |-> st.out \o MapSeq(st.res[qname], LAMBDA h : Chunk(qname, h, "", qname))]

\* scripts.forEach without r.hint.flushed = true
FlushScripts_NoHint(st) ==
  LET queue == st.res.scripts
      sm == st.res.scriptsMap
  IN [res |-> [st.res EXCEPT
                 !.scriptsMap = [h \in DOMAIN sm |->
                    IF h \in Range(queue) THEN [sm[h] EXCEPT !.flushed = TRUE] ELSE sm[h]],
                 !.scripts = <<>>],
      out |-> st.out \o MapSeq(queue, LAMBDA h : ScriptTag(h, "scripts"))]

\* scripts.forEach(r => {pushScriptImpl(...); r.flushed = true; r.hint.flushed = true})
FlushScripts(st) ==
  LET queue == st.res.scripts
      sm == st.res.scriptsMap
  IN [res |-> [st.res EXCEPT
                 !.scriptsMap = [h \in DOMAIN sm |->
                    IF h \in Range(queue) THEN [sm[h] EXCEPT !.flushed = TRUE] ELSE sm[h]],
                 !.preloadsMap = MarkHints(@, sm, Range(queue)),
                 !.scripts = <<>>],
      out |-> st.out \o MapSeq(queue, LAMBDA h : ScriptTag(h, "scripts"))]

\* p.forEach(r => {if (!r.flushed) {pushLinkImpl(...); r.flushed = true;
\*   r.inShell = true; r.hint.flushed = true}}); p.clear()
FlushPrecedenceSet(st, precedence) ==
  LET set == st.res.precedences[precedence]
      sm == st.res.stylesMap
      todo == SelectSeq(set, LAMBDA h : ~sm[h].flushed)
  IN [res |-> [st.res EXCEPT
                 !.stylesMap = [h \in DOMAIN sm |->
                    IF h \in Range(todo)
                    THEN [sm[h] EXCEPT !.flushed = TRUE, !.inShell = TRUE] ELSE sm[h]],
                 !.preloadsMap = MarkHints(@, sm, Range(todo)),
                 !.precedences[precedence] = <<>>],
      out |-> st.out \o MapSeq(todo, LAMBDA h : StylesheetLink(h, precedence, "precedences"))]

\* the body of precedences.forEach without the placeholder of an empty set
FlushPrecedence_NoPlaceholder(st, precedence, firstPrecedence, firstPrecedenceFlushed) ==
  IF Len(st.res.precedences[precedence]) > 0
  THEN FlushPrecedenceSet(st, precedence) ELSE st

\* the body of precedences.forEach in writeInitialResources; firstPrecedence and
\* firstPrecedenceFlushed are the values read when the function was entered
FlushPrecedence(st, precedence, firstPrecedence, firstPrecedenceFlushed) ==
  LET set == st.res.precedences[precedence] IN
  IF precedence = firstPrecedence /\ firstPrecedenceFlushed /\ Len(set) = 0
  THEN st
  ELSE IF Len(set) > 0
  THEN FlushPrecedenceSet(st, precedence)
  ELSE [st EXCEPT !.out = Append(@, PrecedencePlaceholder(precedence))]

\* precedences.forEach that writes the links of the first precedence only and a
\* placeholder for every other precedence
FlushPrecedences_FirstOnly(st) ==
  LET order == st.res.precedenceOrder
      first == st.res.firstPrecedence
      step[i \in 0..Len(order)] ==
        IF i = 0 THEN st
        ELSE IF order[i] = first THEN FlushPrecedenceSet(step[i - 1], first)
        ELSE [step[i - 1] EXCEPT !.out = Append(@, PrecedencePlaceholder(order[i]))]
  IN step[Len(order)]

FlushPrecedences(st) ==
  LET order == st.res.precedenceOrder
      first == st.res.firstPrecedence
      firstFlushed == st.res.firstPrecedenceFlushed
      step[i \in 0..Len(order)] ==
        IF i = 0 THEN st ELSE FlushPrecedence(step[i - 1], order[i], first, firstFlushed)
  IN step[Len(order)]

\* the first precedence alone, in writeEarlyResources
FlushFirstPrecedence(st) ==
  LET first == st.res.firstPrecedence IN
  IF first # "" /\ first \in DOMAIN st.res.precedences
       /\ Len(st.res.precedences[first]) > 0
  THEN LET s1 == FlushPrecedenceSet(st, first)
       IN [s1 EXCEPT !.res.firstPrecedenceFlushed = TRUE]
  ELSE st

\* the external runtime is preinitialized when instructions will be emitted
PreinitExternalRuntime(res, rs, willEmitInstructions) ==
  IF rs.externalRuntimeConfig # Null /\ willEmitInstructions
  THEN preinitImpl(res, rs.externalRuntimeConfig, PreinitOptions("script", Undefined, Undefined))
  ELSE res

StartFlush(res, rs, willEmitInstructions) ==
  [res |-> PreinitExternalRuntime(res, rs, willEmitInstructions), out |-> <<>>]

writeEarlyResources(res, rs, willEmitInstructions) ==
  LET s0 == StartFlush(res, rs, willEmitInstructions)
      s1 == FlushHeadQueue(s0, "bases")
      s2 == FlushHeadQueue(s1, "preconnects")
      s3 == FlushFontPreloads(s2)
      s4 == FlushFirstPrecedence(s3)
      s5 == FlushLinkQueue(s4, "usedStylePreloads")
      s6 == FlushScripts(s5)
      s7 == FlushLinkQueue(s6, "usedScriptPreloads")
      s8 == FlushLinkQueue(s7, "explicitStylePreloads")
      s9 == FlushLinkQueue(s8, "explicitScriptPreloads")
  IN FlushHeadQueue(s9, "headResources")

\* writeInitialResources with the scripts flushed before everything else
writeInitialResources_ScriptsFirst(res, rs, willEmitInstructions) ==
  LET s0 == StartFlush(res, rs, willEmitInstructions)
      s1 == FlushScripts(s0)
      s2 == FlushHeadQueue(s1, "bases")
      s3 == FlushHeadQueue(s2, "preconnects")
      s4 == FlushFontPreloads(s3)
      s5 == FlushPrecedences(s4)
      s6 == FlushLinkQueue(s5, "usedStylePreloads")
      s7 == FlushLinkQueue(s6, "usedScriptPreloads")
      s8 == FlushLinkQueue(s7, "explicitStylePreloads")
      s9 == FlushLinkQueue(s8, "explicitScriptPreloads")
  IN FlushHeadQueue(s9, "headResources")

writeInitialResources(res, rs, willEmitInstructions) ==
  LET s0 == StartFlush(res, rs, willEmitInstructions)
      s1 == FlushHeadQueue(s0, "bases")
      s2 == FlushHeadQueue(s1, "preconnects")
      s3 == FlushFontPreloads(s2)
      s4 == FlushPrecedences(s3)
      s5 == FlushLinkQueue(s4, "usedStylePreloads")
      s6 == FlushScripts(s5)
      s7 == FlushLinkQueue(s6, "usedScriptPreloads")
      s8 == FlushLinkQueue(s7, "explicitStylePreloads")
      s9 == FlushLinkQueue(s8, "explicitScriptPreloads")
  IN FlushHeadQueue(s9, "headResources")

writeResources(res, rs, willEmitInstructions) ==
  LET s0 == StartFlush(res, rs, willEmitInstructions)
      s2 == FlushHeadQueue(s0, "preconnects")
      s3 == FlushFontPreloads(s2)
      s5 == FlushLinkQueue(s3, "usedStylePreloads")
      s6 == FlushScripts(s5)
      s7 == FlushLinkQueue(s6, "usedScriptPreloads")
      s8 == FlushLinkQueue(s7, "explicitStylePreloads")
      s9 == FlushLinkQueue(s8, "explicitScriptPreloads")
  IN FlushHeadQueue(s9, "headResources")

(***************************************************************************)
(* ResponseState and the document structure: <html>, <head>, <body>        *)
(***************************************************************************)
ScriptStreamingFormat == "script"
DataStreamingFormat == "data"

\* externalRuntimeConfig is Undefined or the src of the runtime
\* the id of the root boundary: the response renders into a container
ContainerID == "B:root"

\* the chunks of the bootstrap scripts and of the fallback bootstrap scripts
bootstrapScript == Chunk("bootstrap", "", "main", "boundary")
fallbackBootstrapScript == Chunk("bootstrap", "", "fallback", "boundary")

\* bootstrapScripts and fallbackBootstrapScripts are sequences of chunks,
\* containerID is Null for a response that renders into no container
createResponseState(bootstrapScripts, fallbackBootstrapScripts, externalRuntimeConfig, containerID, documentEmbedding) ==
  [ bootstrapChunks |-> bootstrapScripts,
    fallbackBootstrapChunks |-> IF Len(fallbackBootstrapScripts) # 0
                                THEN fallbackBootstrapScripts ELSE Undefined,
    htmlChunks |-> <<>>,
    headChunks |-> <<>>,
    requiresEmbedding |-> documentEmbedding,
    rendered |-> NONE,
    flushed |-> NONE,
    charsetChunks |-> <<>>,
    hoistableChunks |-> <<>>,
    streamingFormat |-> IF externalRuntimeConfig # Undefined
                        THEN DataStreamingFormat ELSE ScriptStreamingFormat,
    externalRuntimeConfig |-> IF externalRuntimeConfig # Undefined
                              THEN externalRuntimeConfig ELSE Null,
    containerBoundaryID |-> containerID,
    sentCompleteSegmentFunction |-> FALSE,
    sentCompleteBoundaryFunction |-> FALSE,
    sentCompleteContainerFunction |-> FALSE,
    sentClientRenderFunction |-> FALSE,
    sentStyleInsertionFunction |-> FALSE ]

createFormatContext(insertionMode, noscriptTagInScope) ==
  [insertionMode |-> insertionMode, noscriptTagInScope |-> noscriptTagInScope]

createRootFormatContext == createFormatContext(ROOT_HTML_MODE, FALSE)

\* the elements getChildFormatContext has a case for, and the mode of each
SpecialParents ==
  [noscript |-> HTML_MODE, select |-> HTML_MODE, svg |-> SVG_MODE, math |-> MATHML_MODE,
   foreignObject |-> HTML_MODE, table |-> HTML_TABLE_MODE,
   thead |-> HTML_TABLE_BODY_MODE, tbody |-> HTML_TABLE_BODY_MODE,
   tfoot |-> HTML_TABLE_BODY_MODE, colgroup |-> HTML_COLGROUP_MODE,
   tr |-> HTML_TABLE_ROW_MODE]

getChildFormatContext(parentContext, type) ==
  CASE type = "noscript" -> createFormatContext(HTML_MODE, TRUE)
    [] type \in DOMAIN SpecialParents \ {"noscript"} ->
         createFormatContext(SpecialParents[type], parentContext.noscriptTagInScope)
    [] type \notin DOMAIN SpecialParents
       /\ parentContext.insertionMode >= HTML_TABLE_MODE ->
         createFormatContext(HTML_MODE, parentContext.noscriptTagInScope)
    [] type \notin DOMAIN SpecialParents
       /\ parentContext.insertionMode = ROOT_HTML_MODE ->
         IF type = "html" THEN createFormatContext(HTML_HTML_MODE, FALSE)
         ELSE createFormatContext(HTML_MODE, FALSE)
    [] OTHER -> parentContext

DOCTYPE == Chunk("<!DOCTYPE html>", "", "", "")

\* the level of a wrapper tag: "top" where the code treats it as the document's own
Level(type, insertionMode) ==
  IF \/ type = "html" /\ insertionMode = ROOT_HTML_MODE
     \/ type \in {"head", "body"} /\ insertionMode <= HTML_HTML_MODE
  THEN "top" ELSE "nested"

startTag(type, level, q) == Chunk("<" \o type \o ">", "", level, q)
endTag(type, level, q) == Chunk("</" \o type \o ">", "", level, q)

pushStartGenericElement(target, type, insertionMode) ==
  Append(target, startTag(type, Level(type, insertionMode), "inplace"))

pushStartHtml(target, rs, insertionMode) ==
  IF insertionMode = ROOT_HTML_MODE
  THEN [rs |-> [rs EXCEPT !.rendered = BitOr(@, HTML),
                          !.htmlChunks = IF @ = <<>>
                                         THEN <<DOCTYPE, startTag("html", "top", "htmlChunks")>>
                                         ELSE @],
        target |-> target]
  ELSE [rs |-> rs, target |-> pushStartGenericElement(target, "html", insertionMode)]

pushStartHead(target, rs, insertionMode) ==
  IF insertionMode <= HTML_HTML_MODE
  THEN [rs |-> [rs EXCEPT !.rendered = BitOr(@, HEAD),
                          !.headChunks = IF @ = <<>>
                                         THEN <<startTag("head", "top", "headChunks")>>
                                         ELSE @],
        target |-> target]
  ELSE [rs |-> rs, target |-> pushStartGenericElement(target, "head", insertionMode)]

pushStartBody(target, rs, insertionMode) ==
  [rs |-> IF insertionMode <= HTML_HTML_MODE
          THEN [rs EXCEPT !.rendered = BitOr(@, BODY)] ELSE rs,
   target |-> pushStartGenericElement(target, "body", insertionMode)]

\* props is the record of the element's props that the type reads
(***************************************************************************)
(* The content of an element.  A value is what a prop holds: a string, or   *)
(* an array of one string.                                                 *)
(***************************************************************************)
LF == "\n"

Strings == {"a", "\na", "a\n", "\n", "<\n"}

ArrayOf(string) == "[" \o string \o "]"

Values == Strings \cup {ArrayOf(string) : string \in Strings}

\* typeof value
TypeOf(value) == IF value \in Strings THEN "string" ELSE "object"

\* '' + value: the string itself, and the one item of an array
Stringify(value) == CHOOSE string \in Strings : value \in {string, ArrayOf(string)}

\* the characters of a string
Chars(string) ==
  CASE string = "a" -> <<"a">>
    [] string = "\na" -> <<LF, "a">>
    [] string = "a\n" -> <<"a", LF>>
    [] string = "\n" -> <<LF>>
    [] string = "<\n" -> <<"<", LF>>

\* escapeTextForBrowser of one character
EscapedChar(c) ==
  CASE c = "<" -> "&lt;"
    [] c = ">" -> "&gt;"
    [] c = "&" -> "&amp;"
    [] OTHER -> c

RECURSIVE escapeTextForBrowser(_)
escapeTextForBrowser(chars) ==
  IF chars = <<>> THEN ""
  ELSE EscapedChar(Head(chars)) \o escapeTextForBrowser(Tail(chars))

encodeHTMLTextNode(text) == escapeTextForBrowser(Chars(text))

leadingNewline == Chunk("leadingNewline", "", LF, "inplace")

\* the prop of props, null when it is absent, null or undefined
Prop(props, key) ==
  IF key \in DOMAIN props /\ ~IsNullish(props[key]) THEN props[key] ELSE Null

\* typeof value === 'string' && value[0] === '\n'
StartsWithNewline(value) == TypeOf(value) = "string" /\ Chars(value)[1] = LF

(***************************************************************************)
(* The escapers of what is interpolated into inline scripts.  A string is   *)
(* the sequence of its characters; LS and PS stand for U+2028 and U+2029.  *)
(***************************************************************************)
Alphabet == {"a", "<", ">", "&", "\"", "\\", LF, "LS", "PS"}

Flatten(parts) ==
  LET RECURSIVE Join(_)
      Join(i) == IF i > Len(parts) THEN <<>> ELSE parts[i] \o Join(i + 1)
  IN Join(1)

\* JSON.stringify of a string: quoted, with the quote, the backslash and the
\* control characters escaped; U+2028 and U+2029 are left as they are
JSONStringify(input) ==
  LET Quoted(c) == CASE c = "\"" -> <<"\\", "\"">>
                     [] c = "\\" -> <<"\\", "\\">>
                     [] c = LF -> <<"\\", "n">>
                     [] OTHER -> <<c>>
  IN <<"\"">> \o Flatten([i \in 1 .. Len(input) |-> Quoted(input[i])]) \o <<"\"">>

\* the \uXXXX escape of a character
UnicodeEscape(c) ==
  CASE c = "<" -> <<"\\", "u", "0", "0", "3", "c">>
    [] c = ">" -> <<"\\", "u", "0", "0", "3", "e">>
    [] c = "&" -> <<"\\", "u", "0", "0", "2", "6">>
    [] c = "LS" -> <<"\\", "u", "2", "0", "2", "8">>
    [] c = "PS" -> <<"\\", "u", "2", "0", "2", "9">>

\* escaped.replace(regex, ...): every character of matched is replaced
Replace(escaped, matched) ==
  Flatten([i \in 1 .. Len(escaped) |->
             IF escaped[i] \in matched THEN UnicodeEscape(escaped[i])
             ELSE <<escaped[i]>>])

\* the escaper replacing nothing
escapeJSStringsForInstructionScripts_Stringify(input) == JSONStringify(input)

escapeJSStringsForInstructionScripts(input) ==
  Replace(JSONStringify(input), {"<", "LS", "PS"})

escapeJSObjectForInstructionScripts(input) ==
  Replace(JSONStringify(input), {"&", ">", "<", "LS", "PS"})

\* what an element push returns to pushStartInstance
Pushed(target, children, threw) ==
  [target |-> target, children |-> children, threw |-> threw]

\* a void tag: <tag/>
pushSelfClosing(target, props, tag) ==
  IF HasContent(props)
  THEN Pushed(Append(target, Unterminated(tag, "<" \o tag)), Null, TRUE)
  ELSE Pushed(Append(target, Chunk("<" \o tag \o "/>", "", "nested", "inplace")),
              Null, FALSE)

pushInput(target, props) ==
  IF HasContent(props)
  THEN Pushed(Append(target, Unterminated("input", "<input")), Null, TRUE)
  ELSE Pushed(Append(target, Chunk("<input/>", "", "nested", "inplace")), Null, FALSE)

\* <menuitem>, which is not self-closing
pushStartMenuItem(target, props) ==
  IF HasContent(props)
  THEN Pushed(Append(target, Unterminated("menuitem", "<menuitem")), Null, TRUE)
  ELSE Pushed(Append(target, startTag("menuitem", "nested", "inplace")), Null, FALSE)

\* the value is value, else defaultValue, else '' + children
pushStartTextArea(target, props) ==
  LET value0 == Prop(props, "value")
      defaultValue == Prop(props, "defaultValue")
      children == Prop(props, "children")
      value1 == IF value0 = Null /\ defaultValue # Null THEN defaultValue ELSE value0
      value == IF children # Null THEN Stringify(children) ELSE value1
      t1 == Append(target, startTag("textarea", "nested", "inplace"))
      t2 == IF value # Null /\ StartsWithNewline(value)
            THEN Append(t1, leadingNewline) ELSE t1
  IN IF Prop(props, "dangerouslySetInnerHTML") # Null
     THEN Pushed(Append(target, Unterminated("textarea", "<textarea")), Null, TRUE)
     ELSE IF children # Null /\ value1 # Null
     THEN Pushed(t1, Null, TRUE)
     ELSE Pushed(IF value # Null
                 THEN Append(t2, Chunk("value", "", encodeHTMLTextNode(Stringify(value)),
                                       "inplace"))
                 ELSE t2,
                 Null, FALSE)

\* <pre> and <listing>: dangerouslySetInnerHTML is null or its __html
pushStartPreformattedElement(target, props, tag) ==
  LET children == Prop(props, "children")
      html == Prop(props, "dangerouslySetInnerHTML")
      t1 == Append(target, startTag(tag, "nested", "inplace"))
      t2 == IF html = Null THEN t1
            ELSE IF StartsWithNewline(html)
            THEN t1 \o <<leadingNewline, Chunk("html", "", html, "inplace")>>
            ELSE Append(t1, Chunk("html", "", Stringify(html), "inplace"))
  IN IF html # Null /\ children # Null
     THEN Pushed(t1, Null, TRUE)
     ELSE Pushed(IF children # Null /\ StartsWithNewline(children)
                 THEN Append(t2, leadingNewline) ELSE t2,
                 children, FALSE)

\* the tags pushed by pushSelfClosing
SelfClosingTags ==
  {"base", "area", "br", "col", "embed", "hr", "img", "keygen", "param", "source",
   "track", "wbr"}

pushStartInstance(target, type, props, rs, res, bnd, formatContext, textEmbedded) ==
  LET mode == formatContext.insertionMode
      noscript == formatContext.noscriptTagInScope
      rs1 == IF mode = ROOT_HTML_MODE
             THEN [rs EXCEPT !.rendered = BitOr(@, FLOW)] ELSE rs
      doc(r) == PushResult(res, bnd, r.rs, r.target)
      element(r) == [res |-> res, bnd |-> bnd, rs |-> rs1, target |-> r.target,
                     children |-> r.children, threw |-> r.threw]
  IN CASE type = "title" -> pushTitle(target, rs1, res, bnd, mode, noscript)
       [] type = "textarea" -> element(pushStartTextArea(target, props))
       [] type = "input" -> element(pushInput(target, props))
       [] type = "menuitem" -> element(pushStartMenuItem(target, props))
       [] type \in {"listing", "pre"} ->
            element(pushStartPreformattedElement(target, props, type))
       [] type \in SelfClosingTags -> element(pushSelfClosing(target, props, type))
       [] type = "link" -> pushLink(target, props, rs1, res, bnd, textEmbedded, noscript)
       [] type = "script" -> pushScript(target, props, rs1, res, bnd, textEmbedded, noscript)
       [] type = "meta" -> pushMeta(target, props, rs1, res, bnd, textEmbedded, noscript)
       [] type = "html" -> doc(pushStartHtml(target, rs1, mode))
       [] type = "head" -> doc(pushStartHead(target, rs1, mode))
       [] type = "body" -> doc(pushStartBody(target, rs1, mode))
       [] OTHER -> PushResult(res, bnd, rs1, pushStartGenericElement(target, type, mode))

\* pushEndInstance closing every <html> and <body> in place
pushEndInstance_InPlace(target, type, formatContext) ==
  CASE type \in {"title", "script", "link", "meta"} -> target
    [] OTHER -> Append(target, endTag(type, Level(type, formatContext.insertionMode), "inplace"))

\* the tags whose close tag pushEndInstance omits
OmittedCloseTags ==
  {"area", "base", "br", "col", "embed", "hr", "img", "input", "keygen", "link",
   "meta", "param", "source", "track", "wbr"}

\* pushEndInstance omitting the close tag of title, script, link and meta alone
pushEndInstance_Resources(target, type, formatContext) ==
  CASE type \in {"title", "script", "link", "meta"} -> target
    [] type = "body" /\ formatContext.insertionMode <= HTML_HTML_MODE -> target
    [] type = "html" /\ formatContext.insertionMode = ROOT_HTML_MODE -> target
    [] OTHER -> Append(target, endTag(type, Level(type, formatContext.insertionMode), "inplace"))

pushEndInstance(target, type, formatContext) ==
  CASE type \in {"title", "script"} \cup OmittedCloseTags -> target
    [] type = "body" /\ formatContext.insertionMode <= HTML_HTML_MODE -> target
    [] type = "html" /\ formatContext.insertionMode = ROOT_HTML_MODE -> target
    [] OTHER -> Append(target, endTag(type, Level(type, formatContext.insertionMode), "inplace"))

(***************************************************************************)
(* Preamble and postamble.  A write* operator returns the state it leaves  *)
(* and out, the chunks it wrote to the destination.                        *)
(***************************************************************************)
syntheticHtml == <<DOCTYPE, startTag("html", "top", "preamble")>>
syntheticHead == <<startTag("head", "top", "preamble")>>
syntheticHeadEnd == <<endTag("head", "top", "preamble")>>
syntheticBody == <<startTag("body", "top", "preamble")>>

\* writeEarlyPreamble's open tags written whatever was flushed before
writeEarlyPreambleOpen_Unguarded(rs) ==
  [rs |-> [rs EXCEPT !.flushed = BitOr(@, BitOr(HTML, HEAD))],
   out |-> (IF rs.htmlChunks # <<>> THEN rs.htmlChunks ELSE syntheticHtml)
           \o (IF rs.headChunks # <<>> THEN rs.headChunks ELSE syntheticHead)]

\* the open tags of writeEarlyPreamble: both are written, buffered or not,
\* if nothing was flushed yet; returns [rs, out]
writeEarlyPreambleOpen(rs) ==
  IF rs.flushed = NONE
  THEN [rs |-> [rs EXCEPT !.flushed = BitOr(@, BitOr(HTML, HEAD))],
        out |-> (IF rs.htmlChunks # <<>> THEN rs.htmlChunks ELSE syntheticHtml)
                \o (IF rs.headChunks # <<>> THEN rs.headChunks ELSE syntheticHead)]
  ELSE [rs |-> rs, out |-> <<>>]

writeEarlyPreamble(res, rs, willEmitInstructions) ==
  IF rs.requiresEmbedding /\ rs.rendered # NONE
  THEN LET open == writeEarlyPreambleOpen(rs)
           early == writeEarlyResources(res, open.rs, willEmitInstructions)
       IN [res |-> early.res,
           rs |-> [open.rs EXCEPT !.charsetChunks = <<>>, !.hoistableChunks = <<>>],
           out |-> open.out \o rs.charsetChunks \o early.out \o rs.hoistableChunks]
  ELSE [res |-> res, rs |-> rs, out |-> <<>>]

\* writePreamble's open tags with a <head> synthesized whether or not an <html>
\* was written
writePreambleOpen_HeadAlone(rs) ==
  IF rs.flushed = NONE
  THEN LET html == IF rs.htmlChunks # <<>> THEN rs.htmlChunks
                   ELSE IF rs.requiresEmbedding THEN syntheticHtml ELSE <<>>
           f1 == IF html # <<>> THEN BitOr(rs.flushed, HTML) ELSE rs.flushed
           head == IF rs.headChunks # <<>> THEN rs.headChunks ELSE syntheticHead
       IN [rs |-> [rs EXCEPT !.flushed = BitOr(f1, HEAD)], out |-> html \o head]
  ELSE [rs |-> rs, out |-> <<>>]

\* writePreamble's open tags with an <html> synthesized in every mode
writePreambleOpen_AlwaysHtml(rs) ==
  IF rs.flushed = NONE
  THEN LET html == IF rs.htmlChunks # <<>> THEN rs.htmlChunks ELSE syntheticHtml
           head == IF rs.headChunks # <<>> THEN rs.headChunks ELSE syntheticHead
       IN [rs |-> [rs EXCEPT !.flushed = BitOr(@, BitOr(HTML, HEAD))], out |-> html \o head]
  ELSE [rs |-> rs, out |-> <<>>]

\* the open tags of writePreamble; returns [rs, out]
writePreambleOpen(rs) ==
  IF rs.flushed = NONE
  THEN LET html == IF rs.htmlChunks # <<>> THEN rs.htmlChunks
                   ELSE IF rs.requiresEmbedding THEN syntheticHtml ELSE <<>>
           f1 == IF html # <<>> THEN BitOr(rs.flushed, HTML) ELSE rs.flushed
           head == IF rs.headChunks # <<>> THEN rs.headChunks
                   ELSE IF BitAnd(f1, HTML) # 0 THEN syntheticHead ELSE <<>>
           f2 == IF head # <<>> THEN BitOr(f1, HEAD) ELSE f1
       IN [rs |-> [rs EXCEPT !.flushed = f2], out |-> html \o head]
  ELSE [rs |-> rs, out |-> <<>>]

\* the end of writePreamble without the synthesized <body>
writePreambleClose_NoBody(rs) ==
  [rs |-> [rs EXCEPT !.flushed = BitOr(@, BitAnd(rs.rendered, BODY))],
   out |-> IF BitAnd(rs.rendered, HEAD) = NONE /\ BitAnd(rs.flushed, HEAD) # 0
           THEN syntheticHeadEnd ELSE <<>>]

\* the end of writePreamble: </head> and <body>; returns [rs, out]
writePreambleClose(rs) ==
  LET headEnd == IF BitAnd(rs.rendered, HEAD) = NONE /\ BitAnd(rs.flushed, HEAD) # 0
                 THEN syntheticHeadEnd ELSE <<>>
  IN IF rs.requiresEmbedding /\ BitAnd(rs.rendered, HTML_HEAD_OR_BODY) = NONE
     THEN [rs |-> [rs EXCEPT !.flushed = BitOr(@, BODY)],
           out |-> headEnd \o syntheticBody]
     ELSE [rs |-> [rs EXCEPT !.flushed = BitOr(@, BitAnd(rs.rendered, BODY))],
           out |-> headEnd]

\* a flush that pushes out calls pushLinkImpl with the props of a resource
\* that has content, which throws
ThrowsInFlush(res, out) ==
  \E i \in DOMAIN out :
    \/ /\ out[i].t = "link:stylesheet" /\ out[i].q = "precedences"
       /\ HasContent(res.stylesMap[out[i].h].props)
    \/ /\ out[i].t = "link:preload" /\ out[i].q # "inplace"
       /\ out[i].h \in DOMAIN res.preloadsMap
       /\ HasContent(res.preloadsMap[out[i].h].props)

\* returns [res, rs, out, threw].  writeInitialResources collects its chunks
\* before it writes any: when it throws, the open tags and the charset are all
\* that was written; res then holds the flushed marks of the whole flush, which
\* is more than the code had set when it threw
writePreamble(res, rs, willEmitInstructions) ==
  LET open == writePreambleOpen(rs)
      initial == writeInitialResources(res, open.rs, willEmitInstructions)
      rs1 == [open.rs EXCEPT !.charsetChunks = <<>>, !.hoistableChunks = <<>>]
      close == writePreambleClose(rs1)
      threw == ThrowsInFlush(res, initial.out)
  IN [res |-> initial.res,
      rs |-> IF threw THEN [open.rs EXCEPT !.charsetChunks = <<>>] ELSE close.rs,
      threw |-> threw,
      out |-> IF threw THEN open.out \o rs.charsetChunks
              ELSE open.out \o rs.charsetChunks \o initial.out \o rs.hoistableChunks
                   \o close.out]

\* writePostamble closing <html> before <body>
writePostamble_HtmlFirst(rs) ==
  [rs |-> rs,
   out |-> (IF BitAnd(rs.flushed, HTML) # NONE
            THEN <<endTag("html", "top", "postamble")>> ELSE <<>>)
           \o (IF BitAnd(rs.flushed, BODY) # NONE
               THEN <<endTag("body", "top", "postamble")>> ELSE <<>>)]

\* returns [rs, out]
writePostamble(rs) ==
  [rs |-> rs,
   out |-> (IF BitAnd(rs.flushed, BODY) # NONE
            THEN <<endTag("body", "top", "postamble")>> ELSE <<>>)
           \o (IF BitAnd(rs.flushed, HTML) # NONE
               THEN <<endTag("html", "top", "postamble")>> ELSE <<>>)]

\* prepareForFallback forgetting what was flushed as well
prepareForFallback_ResetFlushed(rs) ==
  [rs EXCEPT !.htmlChunks = <<>>, !.headChunks = <<>>, !.rendered = NONE,
             !.flushed = NONE,
             !.bootstrapChunks =
               IF rs.fallbackBootstrapChunks # Undefined
                  /\ Len(rs.fallbackBootstrapChunks) # 0
               THEN rs.fallbackBootstrapChunks ELSE @]

prepareForFallback(rs) ==
  [rs EXCEPT !.htmlChunks = <<>>, !.headChunks = <<>>, !.rendered = NONE,
             !.bootstrapChunks =
               IF rs.fallbackBootstrapChunks # Undefined
                  /\ Len(rs.fallbackBootstrapChunks) # 0
               THEN rs.fallbackBootstrapChunks ELSE @]

(***************************************************************************)
(* Completing a suspense boundary                                          *)
(***************************************************************************)
hasStyleResourceDependencies(res, boundaryResources) ==
  \E i \in DOMAIN boundaryResources : ~res.stylesMap[boundaryResources[i]].inShell

\* one entry of the dependency array: the whole stylesheet, or its href alone
\* if it was flushed before
StyleDependency(href, precedence) == Chunk("dependency", href, precedence, "boundary")
StyleDependencyHrefOnly(href) == Chunk("dependency:href", href, "", "boundary")

\* writeStyleResourceDependencies eliding no stylesheet that is in the shell
\* the dependencies of a boundary marked as flushed in the shell
writeStyleResourceDependencies_InShell(res, boundaryResources) ==
  LET sm == res.stylesMap
      listed == SelectSeq(boundaryResources, LAMBDA h : ~sm[h].inShell)
      new == {h \in Range(listed) : ~sm[h].flushed}
  IN [res |-> [res EXCEPT
                 !.stylesMap = [h \in DOMAIN sm |->
                    IF h \in new THEN [sm[h] EXCEPT !.flushed = TRUE, !.inShell = TRUE]
                    ELSE sm[h]],
                 !.preloadsMap = MarkHints(@, sm, new)],
      out |-> MapSeq(listed, LAMBDA h : IF sm[h].flushed THEN StyleDependencyHrefOnly(h)
                                        ELSE StyleDependency(h, sm[h].precedence))]

writeStyleResourceDependencies_NoElide(res, boundaryResources) ==
  LET sm == res.stylesMap
      listed == boundaryResources
      new == {h \in Range(listed) : ~sm[h].flushed}
  IN [res |-> [res EXCEPT
                 !.stylesMap = [h \in DOMAIN sm |->
                    IF h \in new THEN [sm[h] EXCEPT !.flushed = TRUE] ELSE sm[h]],
                 !.preloadsMap = MarkHints(@, sm, new)],
      out |-> MapSeq(listed, LAMBDA h : IF sm[h].flushed THEN StyleDependencyHrefOnly(h)
                                        ELSE StyleDependency(h, sm[h].precedence))]

\* writeStyleResourceDependenciesInJS and ...InAttr, which differ in escaping
\* alone; returns [res, out]
writeStyleResourceDependencies(res, boundaryResources) ==
  LET sm == res.stylesMap
      listed == SelectSeq(boundaryResources, LAMBDA h : ~sm[h].inShell)
      new == {h \in Range(listed) : ~sm[h].flushed}
  IN [res |-> [res EXCEPT
                 !.stylesMap = [h \in DOMAIN sm |->
                    IF h \in new THEN [sm[h] EXCEPT !.flushed = TRUE] ELSE sm[h]],
                 !.preloadsMap = MarkHints(@, sm, new)],
      out |-> MapSeq(listed, LAMBDA h : IF sm[h].flushed THEN StyleDependencyHrefOnly(h)
                                        ELSE StyleDependency(h, sm[h].precedence))]

\* the body of a helper function of the instruction set
completeSegmentFunction == Chunk("function", "", "$RS", "boundary")
completeBoundaryFunction == Chunk("function", "", "$RC", "boundary")
completeContainerFunction == Chunk("function", "", "$RK", "boundary")
clientRenderFunction == Chunk("function", "", "$RX", "boundary")
styleInsertionFunction == Chunk("function", "", "$RR", "boundary")

\* an instruction without the function bodies: script1 is how its invocation
\* starts in script format, and its data-ri in data format
Instruction(t, id, script1) == Chunk(t, id, script1, "boundary")

\* the bootstrap scripts without a <template> around them
bootstrapContainer_Bare(bootstrapChunks) == bootstrapChunks

\* the <template id="bs:..."> that holds the bootstrap scripts until the
\* boundary is revealed; nothing when there are none
bootstrapContainer(bootstrapChunks) ==
  IF Len(bootstrapChunks) # 0
  THEN <<Chunk("template", "", "bs:", "boundary")>> \o bootstrapChunks
       \o <<Chunk("/template", "", "bs:", "boundary")>>
  ELSE <<>>

\* the body, unless it was sent
Unsent(sent, function) == IF sent THEN <<>> ELSE <<function>>

\* writeCompletedSegmentInstruction naming the first segment in every instruction
writeCompletedSegmentInstruction_First(rs, contentSegmentID) ==
  [rs |-> [rs EXCEPT !.sentCompleteSegmentFunction = TRUE],
   out |-> Unsent(rs.sentCompleteSegmentFunction, completeSegmentFunction)
           \o <<Instruction("completeSegment", "S:1", "$RS")>>]

\* writeCompletedSegmentInstruction writing the inline script in either format
writeCompletedSegmentInstruction_Script(rs, contentSegmentID) ==
  [rs |-> [rs EXCEPT !.sentCompleteSegmentFunction = TRUE],
   out |-> Unsent(rs.sentCompleteSegmentFunction, completeSegmentFunction)
           \o <<Instruction("completeSegment", contentSegmentID, "$RS")>>]

\* returns [rs, out]
writeCompletedSegmentInstruction(rs, contentSegmentID) ==
  LET scriptFormat == rs.streamingFormat = ScriptStreamingFormat IN
  IF scriptFormat
  THEN [rs |-> [rs EXCEPT !.sentCompleteSegmentFunction = TRUE],
        out |-> Unsent(rs.sentCompleteSegmentFunction, completeSegmentFunction)
                \o <<Instruction("completeSegment", contentSegmentID, "$RS")>>]
  ELSE [rs |-> rs, out |-> <<Instruction("completeSegment", contentSegmentID, "s")>>]

\* writeCompletedBoundaryInstruction sending no completeBoundary function with
\* the first boundary that has style dependencies
writeCompletedBoundaryInstruction_StylesOnly(res, rs, boundaryID, boundaryResources) ==
  LET hasStyleDependencies == hasStyleResourceDependencies(res, boundaryResources)
      scriptFormat == rs.streamingFormat = ScriptStreamingFormat
      container == boundaryID = rs.containerBoundaryID
      deps == IF hasStyleDependencies
              THEN writeStyleResourceDependencies(res, boundaryResources)
              ELSE [res |-> res, out |-> <<>>]
      functions ==
        IF ~scriptFormat THEN <<>>
        ELSE IF hasStyleDependencies
        THEN Unsent(rs.sentStyleInsertionFunction, styleInsertionFunction)
        ELSE IF container
             THEN Unsent(rs.sentCompleteContainerFunction, completeContainerFunction)
             ELSE Unsent(rs.sentCompleteBoundaryFunction, completeBoundaryFunction)
      rs1 == IF ~scriptFormat THEN rs
             ELSE IF hasStyleDependencies
             THEN [rs EXCEPT !.sentStyleInsertionFunction = TRUE]
             ELSE [rs EXCEPT
                     !.sentCompleteContainerFunction = @ \/ container,
                     !.sentCompleteBoundaryFunction = @ \/ ~container]
      script1 ==
        IF scriptFormat
        THEN IF hasStyleDependencies
             THEN IF container THEN "$RR($RK" ELSE "$RR($RC"
             ELSE IF container THEN "$RK" ELSE "$RC"
        ELSE IF hasStyleDependencies
             THEN IF container THEN "rc" ELSE "rb"
             ELSE IF container THEN "c" ELSE "b"
  IN [res |-> deps.res, rs |-> rs1, threw |-> FALSE,
      out |-> functions \o <<Instruction("completeBoundary", boundaryID, script1)>>
              \o deps.out]

\* returns [res, rs, out, threw]: threw tells that the call threw, after it
\* wrote out and changed res and rs
writeCompletedBoundaryInstruction(res, rs, boundaryID, boundaryResources) ==
  LET hasStyleDependencies == hasStyleResourceDependencies(res, boundaryResources)
      scriptFormat == rs.streamingFormat = ScriptStreamingFormat
      container == boundaryID = rs.containerBoundaryID
      deps == IF hasStyleDependencies
              THEN writeStyleResourceDependencies(res, boundaryResources)
              ELSE [res |-> res, out |-> <<>>]
      functions ==
        IF ~scriptFormat THEN <<>>
        ELSE (IF hasStyleDependencies
              THEN Unsent(rs.sentStyleInsertionFunction, styleInsertionFunction)
              ELSE <<>>)
             \o (IF container
                 THEN Unsent(rs.sentCompleteContainerFunction, completeContainerFunction)
                 ELSE Unsent(rs.sentCompleteBoundaryFunction, completeBoundaryFunction))
      rs1 == IF ~scriptFormat THEN rs
             ELSE [rs EXCEPT
                     !.sentStyleInsertionFunction = @ \/ hasStyleDependencies,
                     !.sentCompleteContainerFunction = @ \/ container,
                     !.sentCompleteBoundaryFunction = @ \/ ~container]
      script1 ==
        IF scriptFormat
        THEN IF hasStyleDependencies
             THEN IF container THEN "$RR($RK" ELSE "$RR($RC"
             ELSE IF container THEN "$RK" ELSE "$RC"
        ELSE IF hasStyleDependencies
             THEN IF container THEN "rc" ELSE "rb"
             ELSE IF container THEN "c" ELSE "b"
  IN IF boundaryID = Null
     THEN [res |-> res, rs |-> rs, threw |-> TRUE, out |-> <<>>]
     ELSE [res |-> deps.res, rs |-> rs1, threw |-> FALSE,
           out |-> (IF container /\ (hasStyleDependencies \/ ~scriptFormat)
                    THEN bootstrapContainer(rs.bootstrapChunks) ELSE <<>>)
                   \o functions
                   \o <<Instruction("completeBoundary", boundaryID, script1)>>
                   \o deps.out
                   \o (IF container /\ ~hasStyleDependencies /\ scriptFormat
                       THEN rs.bootstrapChunks ELSE <<>>)]

\* the instruction of every boundary, the container too
writeClientRenderBoundaryInstruction_NoContainer(rs, boundaryID) ==
  LET scriptFormat == rs.streamingFormat = ScriptStreamingFormat IN
  IF boundaryID = Null
  THEN [rs |-> rs, threw |-> TRUE, out |-> <<>>]
  ELSE IF scriptFormat
  THEN [rs |-> [rs EXCEPT !.sentClientRenderFunction = TRUE], threw |-> FALSE,
        out |-> Unsent(rs.sentClientRenderFunction, clientRenderFunction)
                \o <<Instruction("clientRender", boundaryID, "$RX")>>]
  ELSE [rs |-> rs, threw |-> FALSE,
        out |-> <<Instruction("clientRender", boundaryID, "x")>>]

\* returns [rs, out, threw]: when it throws, the start of the instruction is
\* written already
writeClientRenderBoundaryInstruction(rs, boundaryID) ==
  LET scriptFormat == rs.streamingFormat = ScriptStreamingFormat
      bootstrapChunks == IF rs.fallbackBootstrapChunks # Undefined
                         THEN rs.fallbackBootstrapChunks ELSE rs.bootstrapChunks
  IN
  IF boundaryID = rs.containerBoundaryID
  THEN [rs |-> rs, threw |-> FALSE, out |-> bootstrapChunks]
  ELSE IF scriptFormat
  THEN [rs |-> [rs EXCEPT !.sentClientRenderFunction = TRUE],
        threw |-> boundaryID = Null,
        out |-> Unsent(rs.sentClientRenderFunction, clientRenderFunction)
                \o <<IF boundaryID = Null THEN Unterminated("clientRender", "$RX")
                     ELSE Instruction("clientRender", boundaryID, "$RX")>>]
  ELSE [rs |-> rs, threw |-> boundaryID = Null,
        out |-> <<IF boundaryID = Null THEN Unterminated("clientRender", "x")
                 ELSE Instruction("clientRender", boundaryID, "x")>>]

\* the start of a Suspense boundary that is still pending; returns [rs, out,
\* threw]
writeStartPendingSuspenseBoundary(rs, id) ==
  IF id = Null
  THEN [rs |-> rs, threw |-> TRUE,
        out |-> <<Unterminated("startPendingSuspenseBoundary", "<!--$?-->")>>]
  ELSE [rs |-> rs, threw |-> FALSE,
        out |-> <<Instruction("startPendingSuspenseBoundary", id, "<!--$?-->")>>]

\* the start of a Suspense boundary that errored before it was flushed, with
\* the <template> of its error and without a digest; returns [rs, out]
writeStartClientRenderedSuspenseBoundary(rs) ==
  [rs |-> rs,
   out |-> <<Chunk("startClientRenderedSuspenseBoundary", "", "<!--$!-->", "boundary"),
             Chunk("template", "", "error1", "boundary"),
             Chunk("/template", "", "error2", "boundary")>>]

(***************************************************************************)
(* Backpressure.  The sink answers each chunk written with                 *)
(* writeChunkAndReturn; refused are the positions in what a call writes    *)
(* for which it answers false.  writeChunk has no answer.                  *)
(***************************************************************************)
\* the browser sink answers true always; another sink may refuse
Sinks == {"browser", "node"}

Refusals(sink, positions) == IF sink = "browser" THEN {{}} ELSE SUBSET positions

writeChunkAndReturn(refused, position) == position \notin refused

Max(S) == CHOOSE x \in S : \A y \in S : y <= x

\* the position of the last chunk of part, which follows offset chunks
LastOf(offset, part) == IF part = <<>> THEN {} ELSE {offset + Len(part)}

\* r of a writer that answered every refusal: let r = true; r = r && ...
LastAnswer_Every(positions, refused) == positions \cap refused = {}

\* r at the return of a writer: let r = true; r = writeChunkAndReturn(...) at
\* each of positions, in order
LastAnswer(positions, refused) ==
  IF positions = {} THEN TRUE ELSE writeChunkAndReturn(refused, Max(positions))

\* the positions in writePreamble's out that are written with
\* writeChunkAndReturn: the last chunk of writeInitialResources, the last
\* hoistable chunk, the end of </head> and of <body>
writePreambleReturning(res, rs, willEmitInstructions) ==
  LET open == writePreambleOpen(rs)
      initial == writeInitialResources(res, open.rs, willEmitInstructions)
      rs1 == [open.rs EXCEPT !.charsetChunks = <<>>, !.hoistableChunks = <<>>]
      close == writePreambleClose(rs1)
      n1 == Len(open.out) + Len(rs.charsetChunks)
      n2 == n1 + Len(initial.out)
      n3 == n2 + Len(rs.hoistableChunks)
  IN LastOf(n1, initial.out) \cup LastOf(n2, rs.hoistableChunks)
     \cup {n3 + i : i \in DOMAIN close.out}

\* the first and the last chunk
writeStartClientRenderedSuspenseBoundaryReturning(rs) ==
  {1, Len(writeStartClientRenderedSuspenseBoundary(rs).out)}

\* the end of the instruction, and the last bootstrap chunk that follows it
writeCompletedBoundaryInstructionReturning(res, rs, boundaryID, boundaryResources) ==
  LET out == writeCompletedBoundaryInstruction(res, rs, boundaryID, boundaryResources).out
      k == CHOOSE i \in DOMAIN out : out[i].t = "completeBoundary"
      trailing == SubSeq(out, k + 1, Len(out))
  IN IF trailing # <<>> /\ trailing[1].t = "bootstrap"
     THEN {k, Len(out)} ELSE {Len(out)}

(***************************************************************************)
(* The request.  driver records what was called so far; lastOp names the   *)
(* last call.                                                              *)
(***************************************************************************)
Op(op, type, mode) ==
  [op |-> op, type |-> type, mode |-> mode, href |-> "", x |-> "", b |-> "",
   crossOrigin |-> Undefined]

\* a registration of href: x is its as or its precedence, b the boundary rendering
RegOp(op, type, href, x, b) ==
  [op |-> op, type |-> type, mode |-> ROOT_HTML_MODE, href |-> href, x |-> x, b |-> b,
   crossOrigin |-> Undefined]

\* a registration that gives crossOrigin
RegOpWith(op, type, href, x, crossOrigin) ==
  [op |-> op, type |-> type, mode |-> ROOT_HTML_MODE, href |-> href, x |-> x, b |-> "",
   crossOrigin |-> crossOrigin]

\* op, when the call threw
Thrown(op, threw) == [op EXCEPT !.x = IF threw THEN "throw" ELSE @]

\* op, with what the sink refused and what the call returned
Sunk(op, positions, refused, returned) ==
  [op |-> op.op, type |-> op.type, mode |-> op.mode, href |-> op.href, x |-> op.x,
   b |-> op.b, crossOrigin |-> op.crossOrigin,
   positions |-> positions, refused |-> refused, returned |-> returned]

\* pushStartInstance of an element with props, in insertion mode mode: content
\* tells that the props have children or dangerouslySetInnerHTML, children is
\* what the push returned
ElementOp(type, mode, props, r) ==
  [op |-> "pushStartInstance", type |-> type, mode |-> mode,
   href |-> IF "href" \in DOMAIN props THEN props.href ELSE "",
   x |-> IF r.threw THEN "throw" ELSE "", b |-> "", crossOrigin |-> Undefined,
   content |-> HasContent(props), children |-> r.children, props |-> props]

\* the calls that take nothing the model records
CallNames ==
  {"createRequest", "writeEarlyPreamble", "writePreamble",
   "writeResources", "writePostamble", "flushSegment",
   "prepareForFallback", "prepareToRenderResources", "finishRenderingResources"}

Call ==
  [name \in CallNames |->
    [op |-> name, type |-> "", mode |-> 0, href |-> "", x |-> "", b |-> "",
     crossOrigin |-> Undefined]]

\* a <meta> or <title> rendered at the root: not a registration
RenderOp ==
  [type \in {"meta", "title"} |->
    [op |-> "render", type |-> type, mode |-> ROOT_HTML_MODE, href |-> "", x |-> "", b |-> "",
     crossOrigin |-> Undefined]]

NoRepeat == [n |-> 0, fresh |-> FALSE, href |-> ""]

\* a task that is rendering in formatContext, with no element open
NewTask(formatContext) ==
  [formatContext |-> formatContext, stack |-> <<>>, running |-> TRUE]

ExternalRuntimes == {Undefined, RuntimeSrc}

\* willEmitInstructions is read only if there is an external runtime
WillEmit(rs) == IF rs.externalRuntimeConfig = Null THEN {FALSE} ELSE BOOLEAN

\* the state after createRequest, for each choice of the options of the
\* response: bootstraps and fallbacks are sets of sequences of chunks,
\* containers a set of container IDs
InitResponse(runtimes, bs, current, bootstraps, fallbacks, containers) ==
  /\ currentResources = current
  /\ currentResourcesStack = <<>>
  /\ otherResources = createResources
  /\ streamConfig = resetView
  /\ newContext = createContexts
  /\ resources = createResources
  /\ boundaries = [b \in bs |-> createBoundaryResources]
  /\ \E rt \in runtimes, embedding \in BOOLEAN, bootstrap \in bootstraps,
        fallback \in fallbacks, containerID \in containers :
       responseState = createResponseState(bootstrap, fallback, rt, containerID,
                                           embedding)
  /\ task = NewTask(createRootFormatContext)
  /\ segment = <<>>
  /\ destination = <<>>
  /\ lastOut = <<>>
  /\ lastOp = Call["createRequest"]
  /\ driver = [preamble |-> FALSE, postamble |-> FALSE, fallback |-> FALSE,
               writes |-> 0, regs |-> 0, pushes |-> 0,
               suspended |-> {}, completed |-> {}, styles |-> <<>>, scoped |-> {},
               repeat |-> NoRepeat, prepared |-> <<>>, written |-> <<>>,
               providers |-> <<>>]

\* a response into the container, without bootstrap scripts
InitDispatcher(runtimes, bs, current) ==
  InitResponse(runtimes, bs, current, {<<>>}, {<<>>}, {ContainerID})

\* a request that is being worked on: its Resources is the current one
InitBoundaries(runtimes, bs) == InitDispatcher(runtimes, bs, RequestResources)

InitRequest(runtimes) == InitBoundaries(runtimes, Boundaries)

\* a request that is not being worked on yet
InitIdle == InitDispatcher({Undefined}, Boundaries, Null)

Init == InitRequest(ExternalRuntimes)

\* a request with a Suspense boundary inside another, and no external runtime
NestedBoundaries == {"B:0", "B:1"}

InitNested == InitBoundaries({Undefined}, NestedBoundaries)

\* the boundaries and the segments that instructions are written for
InstructedBoundaries == {"B:0", "B:1", ContainerID}

Segments == {"S:1", "S:2"}

InitInstructed == InitBoundaries({Undefined}, InstructedBoundaries)

\* the stylesheets boundaries depend on, and how many are rendered
MaxDeps == 3

\* the characters of a string that is escaped
MaxLen == 3

InitDependent == InitBoundaries(ExternalRuntimes, NestedBoundaries)

\* a response in either format, with or without bootstrap scripts, fallback
\* bootstrap scripts and a container; the boundary Null has no ID assigned
BootstrappedBoundaries == {"B:0", ContainerID, Null}

InitBootstrapped ==
  InitResponse(ExternalRuntimes, BootstrappedBoundaries, RequestResources,
               {<<>>, <<bootstrapScript>>}, {<<>>, <<fallbackBootstrapScript>>},
               {ContainerID, Null})

\* a request without an external runtime
InitNoRuntime == InitRequest({Undefined})

\* a call that threw is fatal to the request
Threw == lastOp.x = "throw"

Live == ~driver.postamble /\ ~Threw

\* the stylesheets in the order in which they were registered
Registered(res) ==
  LET new == DOMAIN res.stylesMap \ Range(driver.styles)
  IN IF new = {} THEN driver.styles ELSE Append(driver.styles, CHOOSE h \in new : TRUE)

Unregistered(href) ==
  href \notin DOMAIN resources.preloadsMap \cup DOMAIN resources.stylesMap
                \cup DOMAIN resources.scriptsMap

\* how many times in a row the registration op was called, and whether its href
\* was unregistered before the first of these calls
Repeat(op) ==
  IF op.href = "" THEN NoRepeat
  ELSE IF op = lastOp THEN [driver.repeat EXCEPT !.n = @ + 1]
  ELSE [n |-> 1, fresh |-> Unregistered(op.href), href |-> op.href]

\* the stylesheets that were registered by a boundary's task
Scoped(op) ==
  IF op.b \notin {"", Null} /\ op.href \notin DOMAIN resources.stylesMap
  THEN driver.scoped \cup {op.href} ELSE driver.scoped

\* a call that writes nothing
Quiet(op, res, bnd, rs, d) ==
  /\ resources' = res
  /\ boundaries' = bnd
  /\ responseState' = rs
  /\ lastOp' = op
  /\ driver' = [d EXCEPT !.styles = Registered(res), !.scoped = Scoped(op),
                        !.repeat = Repeat(op)]
  /\ UNCHANGED <<destination, lastOut, currentResources, currentResourcesStack,
                 otherResources, streamConfig, newContext>>

\* a call that writes out to the destination
Written(op, res, rs, out, d) ==
  /\ resources' = res
  /\ responseState' = rs
  /\ destination' = destination \o out
  /\ lastOut' = out
  /\ lastOp' = op
  /\ driver' = [d EXCEPT !.repeat = IF lastOp.href # "" THEN @ ELSE NoRepeat]
  /\ UNCHANGED <<currentResources, currentResourcesStack, otherResources,
                 streamConfig, newContext>>

PreloadWith(href, as, crossOrigin) ==
  /\ Live /\ driver.regs < MaxRegs
  /\ Quiet(RegOpWith("preload", "", href, as, crossOrigin),
           preload(currentResources, resources, href, PreloadOptions(as, crossOrigin)),
           boundaries,
           responseState, [driver EXCEPT !.regs = @ + 1])
  /\ UNCHANGED <<task, segment>>

PreinitWith(href, as, precedence, crossOrigin) ==
  /\ Live /\ driver.regs < MaxRegs
  /\ Quiet(RegOpWith("preinit", as, href, precedence, crossOrigin),
           preinit(currentResources, resources, href,
                   PreinitOptions(as, precedence, crossOrigin)),
           boundaries, responseState, [driver EXCEPT !.regs = @ + 1])
  /\ UNCHANGED <<task, segment>>

\* preload and preinit without crossOrigin
Preload(href, as) == PreloadWith(href, as, Undefined)

Preinit(href, as, precedence) == PreinitWith(href, as, precedence, Undefined)

\* the task of the root (b = Null) or of boundary b renders a <link>, <script>,
\* <meta> or <title> as a child of the root
Render(b, type, props, op) ==
  /\ driver.regs < MaxRegs
  /\ b \notin driver.completed
  /\ task.stack = <<>>
  /\ LET res == setCurrentlyRenderingBoundaryResourcesTarget(resources, b)
         r == pushStartInstance(segment, type, props, responseState, res, boundaries,
                                createRootFormatContext, lastPushedText(segment))
     IN /\ Quiet(op, r.res, r.bnd, r.rs,
                 [driver EXCEPT !.regs = @ + 1])
        /\ segment' = pushEndInstance(r.target, type, createRootFormatContext)
  /\ UNCHANGED task

StylesheetProps(href, precedence) ==
  [rel |-> "stylesheet", href |-> href, as |-> "", precedence |-> precedence,
   handlers |-> FALSE, disabled |-> FALSE, crossOrigin |-> Undefined]

PreloadProps(href, as) ==
  [rel |-> "preload", href |-> href, as |-> as, precedence |-> Undefined,
   handlers |-> FALSE, disabled |-> FALSE, crossOrigin |-> Undefined]

ScriptProps(src) ==
  [src |-> src, async |-> TRUE, handlers |-> FALSE, crossOrigin |-> Undefined]

MetaProps(charSet) == [charSet |-> charSet]

NoProps == [children |-> Null]

RenderStylesheet(b, href, precedence) ==
  /\ Live
  /\ Render(b, "link", StylesheetProps(href, precedence),
            RegOp("render", "link:stylesheet", href, precedence, b))

RenderPreload(href, as) ==
  /\ Live
  /\ Render(Null, "link", PreloadProps(href, as),
            RegOp("render", "link:preload", href, as, Null))

RenderScript(src) ==
  /\ Live
  /\ Render(Null, "script", ScriptProps(src), RegOp("render", "script", src, "", Null))

RenderMeta(charSet) ==
  /\ Live
  /\ Render(Null, "meta", MetaProps(charSet), RenderOp["meta"])

RenderTitle ==
  /\ Live
  /\ Render(Null, "title", NoProps, RenderOp["title"])

\* a request whose Resources is res starts to be worked on, possibly inside
\* a render
PrepareToRender(res) ==
  /\ Live /\ Len(currentResourcesStack) < MaxPush
  /\ LET r == prepareToRenderResources(res, currentResources, currentResourcesStack)
     IN /\ currentResources' = r.currentResources
        /\ currentResourcesStack' = r.currentResourcesStack
  /\ lastOp' = Call["prepareToRenderResources"]
  /\ driver' = [driver EXCEPT !.repeat = NoRepeat, !.prepared = Append(@, res)]
  /\ UNCHANGED <<resources, boundaries, responseState, task, segment, destination,
                 lastOut, otherResources, streamConfig, newContext>>

\* the request starts to be worked on, or React renders inside a render
PrepareToRenderResources == PrepareToRender(RequestResources)

\* preload or preinit called while the other request is being rendered
DispatchOther(op, href, as, precedence) ==
  /\ Live /\ driver.regs < MaxRegs
  /\ currentResources = OtherResources
  /\ otherResources' =
       IF op = "preload"
       THEN preload(currentResources, otherResources, href, PreloadOptions(as, Undefined))
       ELSE preinit(currentResources, otherResources, href,
                    PreinitOptions(as, precedence, Undefined))
  /\ lastOp' = RegOpWith(op, IF op = "preload" THEN "" ELSE as, href,
                         IF op = "preload" THEN as ELSE precedence, Undefined)
  /\ driver' = [driver EXCEPT !.regs = @ + 1, !.repeat = NoRepeat]
  /\ UNCHANGED <<resources, boundaries, responseState, task, segment, destination,
                 lastOut, currentResources, currentResourcesStack, streamConfig,
                 newContext>>

FinishRenderingResources ==
  /\ Live /\ currentResourcesStack # <<>>
  /\ LET r == finishRenderingResources(currentResources, currentResourcesStack)
     IN /\ currentResources' = r.currentResources
        /\ currentResourcesStack' = r.currentResourcesStack
  /\ lastOp' = Call["finishRenderingResources"]
  /\ driver' = [driver EXCEPT !.repeat = NoRepeat,
                              !.prepared = SubSeq(@, 1, Len(@) - 1)]
  /\ UNCHANGED <<resources, boundaries, responseState, task, segment, destination,
                 lastOut, otherResources, streamConfig, newContext>>

\* the completed boundary source is flushed inside the enclosing boundary
\* target, which is the current one: its resources are hoisted to target
HoistResources(target, source) ==
  /\ Live /\ source \notin driver.completed
  /\ LET res == setCurrentlyRenderingBoundaryResourcesTarget(resources, target)
     IN Quiet(Op("hoistResources", source, 0), res, hoistResources(res, boundaries, source),
              responseState, [driver EXCEPT !.completed = @ \cup {source}])
  /\ UNCHANGED <<task, segment>>

HandledScriptProps(src) ==
  [src |-> src, async |-> TRUE, handlers |-> TRUE, crossOrigin |-> Undefined]

\* the running task pushes a text child
PushText ==
  /\ Live /\ driver.pushes < MaxPush
  /\ task.running
  /\ segment' = pushTextInstance(segment, lastPushedText(segment))
  /\ Quiet(Op("pushTextInstance", "", task.formatContext.insertionMode), resources,
           boundaries, responseState, [driver EXCEPT !.pushes = @ + 1])
  /\ UNCHANGED task

\* the running task renders a <link> or <script> as a child of the element it is
\* in, for the root (b = Null) or for boundary b
RenderChild(b, type, props, op) ==
  /\ driver.regs < MaxRegs
  /\ b \notin driver.completed
  /\ task.running
  /\ LET res == setCurrentlyRenderingBoundaryResourcesTarget(resources, b)
         r == pushStartInstance(segment, type, props, responseState, res, boundaries,
                                task.formatContext, lastPushedText(segment))
     IN /\ Quiet(op, r.res, r.bnd, r.rs, [driver EXCEPT !.regs = @ + 1])
        /\ segment' = pushEndInstance(r.target, type, task.formatContext)
  /\ UNCHANGED task

RenderChildStylesheet(b, href, precedence) ==
  /\ Live
  /\ RenderChild(b, "link", StylesheetProps(href, precedence),
                 RegOp("render", "link:stylesheet", href, precedence, b))

RenderChildScript(src) ==
  /\ Live
  /\ RenderChild(Null, "script", ScriptProps(src), RegOp("render", "script", src, "", Null))

RenderHandledScript(src) ==
  /\ Live
  /\ RenderChild(Null, "script", HandledScriptProps(src),
                 RegOp("render", "script:handlers", src, "", Null))

\* a boundary completes: before the shell is flushed its resources are hoisted
\* to the root, afterwards its completion instruction is written
CompleteBoundary(b) ==
  /\ Live /\ b \notin driver.completed
  /\ IF ~driver.preamble
     THEN LET r == hoistResourcesToRoot(resources, boundaries, b)
          IN Quiet(Op("hoistResourcesToRoot", b, 0), r.res, r.bnd, responseState,
                   [driver EXCEPT !.completed = @ \cup {b}])
     ELSE LET r == writeCompletedBoundaryInstruction(resources, responseState, b,
                                                     boundaries[b])
          IN /\ Written(Thrown(Op("writeCompletedBoundaryInstruction", b, 0), r.threw),
                        r.res, r.rs, r.out, [driver EXCEPT !.completed = @ \cup {b}])
             /\ UNCHANGED boundaries
  /\ UNCHANGED <<task, segment>>

\* a segment that was not ready when its parent was flushed is written with
\* the instruction that moves it into place
WriteCompletedSegmentInstruction(contentSegmentID) ==
  /\ Live /\ driver.preamble /\ contentSegmentID \notin driver.completed
  /\ LET r == writeCompletedSegmentInstruction(responseState, contentSegmentID)
     IN Written(Op("writeCompletedSegmentInstruction", contentSegmentID, 0), resources,
                r.rs, r.out, [driver EXCEPT !.completed = @ \cup {contentSegmentID}])
  /\ UNCHANGED <<boundaries, task, segment>>

\* a boundary errored after the shell was flushed
WriteClientRenderBoundaryInstruction(b) ==
  /\ Live /\ driver.preamble /\ b \notin driver.completed
  /\ LET r == writeClientRenderBoundaryInstruction(responseState, b)
     IN Written(Thrown(Op("writeClientRenderBoundaryInstruction", b, 0), r.threw),
                resources, r.rs, r.out, [driver EXCEPT !.completed = @ \cup {b}])
  /\ UNCHANGED <<boundaries, task, segment>>

\* writePreamble to a sink that refuses the chunks at refused
WritePreambleTo(sink, willEmitInstructions) ==
  /\ Live /\ ~driver.preamble /\ driver.writes < MaxWrites
  /\ task.stack = <<>>
  /\ LET r == writePreamble(resources, responseState, willEmitInstructions)
         positions == writePreambleReturning(resources, responseState,
                                             willEmitInstructions)
     IN \E refused \in Refusals(sink, positions) :
          Written(Sunk(Call["writePreamble"], positions, refused,
                       LastAnswer(positions, refused)),
                  r.res, r.rs, r.out,
                  [driver EXCEPT !.writes = @ + 1, !.preamble = TRUE])
  /\ task' = [task EXCEPT !.running = FALSE]
  /\ UNCHANGED <<boundaries, segment>>

\* a boundary that errored in the shell is flushed as client-rendered
WriteStartClientRenderedSuspenseBoundaryTo(sink, b) ==
  /\ Live /\ driver.preamble /\ b \notin driver.completed
  /\ LET r == writeStartClientRenderedSuspenseBoundary(responseState)
         positions == writeStartClientRenderedSuspenseBoundaryReturning(responseState)
     IN \E refused \in Refusals(sink, positions) :
          Written(Sunk(Op("writeStartClientRenderedSuspenseBoundary", b, 0),
                       positions, refused, LastAnswer(positions, refused)),
                  resources, r.rs, r.out, [driver EXCEPT !.completed = @ \cup {b}])
  /\ UNCHANGED <<boundaries, task, segment>>

\* a boundary completes after the shell
WriteCompletedBoundaryInstructionTo(sink, b) ==
  /\ Live /\ driver.preamble /\ b \notin driver.completed
  /\ LET r == writeCompletedBoundaryInstruction(resources, responseState, b,
                                                boundaries[b])
         positions == writeCompletedBoundaryInstructionReturning(
                        resources, responseState, b, boundaries[b])
     IN \E refused \in Refusals(sink, positions) :
          Written(Sunk(Op("writeCompletedBoundaryInstruction", b, 0),
                       positions, refused, LastAnswer(positions, refused)),
                  r.res, r.rs, r.out, [driver EXCEPT !.completed = @ \cup {b}])
  /\ UNCHANGED <<boundaries, task, segment>>

\* a boundary that is still pending is flushed with its fallback, once
WriteStartPendingSuspenseBoundary(id) ==
  /\ Live /\ driver.preamble /\ id \notin driver.completed
  /\ \A i \in DOMAIN destination :
       ~(destination[i].t = "startPendingSuspenseBoundary" /\ destination[i].h = id)
  /\ LET r == writeStartPendingSuspenseBoundary(responseState, id)
     IN Written(Thrown(Op("writeStartPendingSuspenseBoundary", id, 0), r.threw),
                resources, r.rs, r.out, driver)
  /\ UNCHANGED <<boundaries, task, segment>>

\* called any number of times before the shell completes, by the one render
\* method that embeds the document
WriteEarlyPreamble(willEmitInstructions) ==
  /\ Live /\ ~driver.preamble /\ driver.writes < MaxWrites
  /\ responseState.requiresEmbedding
  /\ LET r == writeEarlyPreamble(resources, responseState, willEmitInstructions)
     IN Written(Call["writeEarlyPreamble"], r.res, r.rs, r.out,
                [driver EXCEPT !.writes = @ + 1])
  /\ UNCHANGED <<boundaries, task, segment>>

\* called at most once, when the tasks of the shell have completed: what renders
\* afterwards is a task that had suspended
WritePreamble(willEmitInstructions) ==
  /\ Live /\ ~driver.preamble /\ driver.writes < MaxWrites
  /\ task.stack = <<>>
  /\ LET r == writePreamble(resources, responseState, willEmitInstructions)
     IN Written(Thrown(Call["writePreamble"], r.threw), r.res, r.rs, r.out,
                [driver EXCEPT !.writes = @ + 1, !.preamble = TRUE])
  /\ task' = [task EXCEPT !.running = FALSE]
  /\ UNCHANGED <<boundaries, segment>>

WriteResources(willEmitInstructions) ==
  /\ Live /\ driver.preamble /\ driver.writes < MaxWrites
  /\ LET r == writeResources(resources, responseState, willEmitInstructions)
     IN Written(Call["writeResources"], r.res, responseState, r.out,
                [driver EXCEPT !.writes = @ + 1])
  /\ UNCHANGED <<boundaries, task, segment>>

\* called once, when all content has been written
WritePostamble ==
  /\ Live /\ task.stack = <<>> /\ segment = <<>>
  /\ LET r == writePostamble(responseState)
     IN Written(Call["writePostamble"], resources, r.rs, r.out,
                [driver EXCEPT !.postamble = TRUE])
  /\ UNCHANGED <<boundaries, task, segment>>

\* the completed segment is written after the preamble
FlushSegment ==
  /\ Live /\ driver.preamble /\ task.stack = <<>> /\ segment # <<>>
  /\ Written(Call["flushSegment"], resources, responseState, segment, driver)
  /\ segment' = <<>>
  /\ UNCHANGED <<boundaries, task>>

ElementTypes == {"html", "head", "body", "div"}

\* the void elements
VoidTags ==
  {"area", "base", "br", "col", "embed", "hr", "img", "input", "keygen", "link",
   "menuitem", "param", "source", "track", "wbr"}

ElementProps(children, dangerouslySetInnerHTML) ==
  [children |-> children, dangerouslySetInnerHTML |-> dangerouslySetInnerHTML]

TextAreaProps(value, defaultValue, children) ==
  [value |-> value, defaultValue |-> defaultValue, children |-> children]

LinkProps(rel, href, as, precedence, handlers, children) ==
  [rel |-> rel, href |-> href, as |-> as, precedence |-> precedence,
   handlers |-> handlers, disabled |-> FALSE, crossOrigin |-> Undefined,
   children |-> children]

\* the <link>s that are rendered: a stylesheet with and without precedence, a
\* preload, an icon, with and without onLoad
Links ==
  {LinkProps("stylesheet", "a", "", precedence, FALSE, children) :
     precedence \in {"p1", Undefined}, children \in {Null, "a"}}
  \cup {LinkProps(rel, "a", "style", Undefined, handlers, children) :
          rel \in {"preload", "icon"}, handlers \in BOOLEAN,
          children \in {Null, "a"}}

\* an element is rendered with props: the task enters it
PushStartElement(type, props) ==
  /\ Live /\ driver.pushes < MaxPush
  /\ task.running
  /\ LET r == pushStartInstance(segment, type, props, responseState, resources,
                                boundaries, task.formatContext, lastPushedText(segment))
     IN /\ Quiet(ElementOp(type, task.formatContext.insertionMode, props, r),
                 r.res, r.bnd, r.rs, [driver EXCEPT !.pushes = @ + 1])
        /\ segment' = r.target
  /\ task' = [task EXCEPT
                !.formatContext = getChildFormatContext(task.formatContext, type),
                !.stack = Append(@, [type |-> type, formatContext |-> task.formatContext])]

PushStartInstance(type) ==
  /\ Live /\ driver.pushes < MaxPush
  /\ task.running
  /\ LET r == pushStartInstance(segment, type, NoProps, responseState, resources,
                                boundaries, task.formatContext, lastPushedText(segment))
     IN /\ Quiet(Op("pushStartInstance", type, task.formatContext.insertionMode),
                 r.res, r.bnd, r.rs, [driver EXCEPT !.pushes = @ + 1])
        /\ segment' = r.target
  /\ task' = [task EXCEPT
                !.formatContext = getChildFormatContext(task.formatContext, type),
                !.stack = Append(@, [type |-> type, formatContext |-> task.formatContext])]

PushEndInstance ==
  /\ Live /\ task.stack # <<>>
  /\ LET top == task.stack[Len(task.stack)]
     IN /\ segment' = pushEndInstance(segment, top.type, top.formatContext)
        /\ task' = [task EXCEPT !.formatContext = top.formatContext,
                                 !.stack = SubSeq(@, 1, Len(@) - 1)]
        /\ Quiet(Op("pushEndInstance", top.type, top.formatContext.insertionMode),
                 resources, boundaries, responseState, driver)

\* a component suspends: its task will resume later in the same format context
Suspend ==
  /\ Live /\ task.running
  /\ task.formatContext.insertionMode \notin driver.suspended
  /\ Quiet(Op("suspend", "", task.formatContext.insertionMode), resources, boundaries,
           responseState, [driver EXCEPT !.suspended = @ \cup {task.formatContext.insertionMode}])
  /\ UNCHANGED <<task, segment>>

Resume(mode) ==
  /\ Live /\ task.stack = <<>> /\ mode \in driver.suspended
  /\ ~task.running \/ task.formatContext.insertionMode # mode
  /\ task' = NewTask(createFormatContext(mode, FALSE))
  /\ Quiet(Op("resume", "", mode), resources, boundaries, responseState, driver)
  /\ UNCHANGED segment

\* the shell errored before it was flushed: the fallback shell is rendered instead
PrepareForFallback ==
  /\ Live /\ responseState.requiresEmbedding /\ ~driver.preamble /\ ~driver.fallback
  /\ Quiet(Call["prepareForFallback"], resources, boundaries,
           prepareForFallback(responseState),
           [driver EXCEPT !.fallback = TRUE, !.suspended = {}])
  /\ task' = NewTask(createRootFormatContext)
  /\ segment' = <<>>

Modes == {ROOT_HTML_MODE, HTML_HTML_MODE, HTML_MODE}

Registration ==
  \/ \E h \in Hrefs, as \in ResourceTypes : Preload(h, as)
  \/ \E h \in Hrefs, p \in Precedences : Preinit(h, "style", p)
  \/ \E h \in Hrefs : Preinit(h, "script", Undefined)
  \/ \E b \in Boundaries \cup {Null}, h \in Hrefs, p \in Precedences :
       RenderStylesheet(b, h, p)
  \/ \E h \in Hrefs, as \in ResourceTypes : RenderPreload(h, as)
  \/ \E h \in Hrefs : RenderScript(h)
  \/ \E c \in BOOLEAN : RenderMeta(c)
  \/ RenderTitle

Next ==
  \/ Registration
  \/ \E b \in Boundaries : CompleteBoundary(b)
  \/ \E w \in WillEmit(responseState) : WriteEarlyPreamble(w)
  \/ \E w \in WillEmit(responseState) : WritePreamble(w)
  \/ \E w \in WillEmit(responseState) : WriteResources(w)
  \/ WritePostamble

Spec == Init /\ [][Next]_vars

\* the response up to the flush of its shell
NextShell ==
  \/ ~driver.preamble /\ Registration
  \/ \E b \in Boundaries :
       ~driver.preamble /\ boundaries[b] # <<>> /\ CompleteBoundary(b)
  \/ \E w \in WillEmit(responseState) : WriteEarlyPreamble(w)
  \/ \E w \in WillEmit(responseState) : WritePreamble(w)
  \/ driver.preamble /\ WritePostamble

SpecShell == InitNoRuntime /\ [][NextShell]_vars

\* the document: the walker and the flushes, without resources
NextDoc ==
  \/ \E type \in ElementTypes : PushStartInstance(type)
  \/ PushEndInstance
  \/ Suspend
  \/ \E mode \in Modes : Resume(mode)
  \/ PrepareForFallback
  \/ FlushSegment
  \/ WriteEarlyPreamble(FALSE)
  \/ WritePreamble(FALSE)
  \/ WritePostamble

SpecDoc == InitNoRuntime /\ [][NextDoc]_vars

\* the elements that are rendered inside one another
NestedTypes ==
  {"html", "head", "body", "div", "noscript", "select", "svg", "math", "foreignObject",
   "table", "tbody", "colgroup", "tr"}

\* elements rendered inside one another from the root
NextContext ==
  \/ \E type \in NestedTypes : PushStartInstance(type)
  \/ PushEndInstance

SpecContext == InitNoRuntime /\ [][NextContext]_vars

\* a response with or without bootstrap scripts and fallback bootstrap scripts
InitFallback ==
  InitResponse({Undefined}, Boundaries, RequestResources,
               {<<>>, <<bootstrapScript>>}, {<<>>, <<fallbackBootstrapScript>>},
               {ContainerID})

\* a document whose shell may error before or after the early preamble, and
\* whose fallback shell is rendered then
NextFallback ==
  \/ \E type \in {"html", "head", "body"} : PushStartInstance(type)
  \/ PushEndInstance
  \/ PrepareForFallback
  \/ FlushSegment
  \/ WriteEarlyPreamble(FALSE)
  \/ WritePreamble(FALSE)

SpecFallback == InitFallback /\ [][NextFallback]_vars

\* the registry and its flushes: resources registered by preload and preinit,
\* <meta> and <title> rendered in the shell, and every flush of the queues
NextFlush ==
  \/ \E h \in Hrefs, as \in ResourceTypes : Preload(h, as)
  \/ \E h \in Hrefs, p \in Precedences : Preinit(h, "style", p)
  \/ \E h \in Hrefs : Preinit(h, "script", Undefined)
  \/ \E c \in BOOLEAN : ~driver.preamble /\ RenderMeta(c)
  \/ ~driver.preamble /\ RenderTitle
  \/ \E w \in WillEmit(responseState) : WriteEarlyPreamble(w)
  \/ \E w \in WillEmit(responseState) : WritePreamble(w)
  \/ \E w \in WillEmit(responseState) : WriteResources(w)

SpecFlush == Init /\ [][NextFlush]_vars

\* elements rendered as children: after text, inside <noscript>, re-rendered
NextScope ==
  \/ ~driver.preamble /\ PushStartInstance("noscript")
  \/ ~driver.preamble /\ PushEndInstance
  \/ ~driver.preamble /\ PushText
  \/ \E b \in Boundaries \cup {Null}, p \in Precedences :
       ~driver.preamble /\ RenderChildStylesheet(b, "a", p)
  \/ ~driver.preamble /\ RenderChildScript("b")
  \/ ~driver.preamble /\ RenderHandledScript("b")
  \/ \E w \in WillEmit(responseState) : WritePreamble(w)
  \/ FlushSegment

SpecScope == InitNoRuntime /\ [][NextScope]_vars

\* stylesheets rendered in a boundary, in a boundary inside it and at the root;
\* a boundary that completes is hoisted to a boundary or to the root
NextHoist ==
  \/ \E b \in NestedBoundaries \cup {Null}, h \in Hrefs, p \in Precedences :
       ~driver.preamble /\ RenderStylesheet(b, h, p)
  \/ \E target \in NestedBoundaries, source \in NestedBoundaries :
       target # source /\ HoistResources(target, source)
  \/ \E b \in NestedBoundaries : ~driver.preamble /\ CompleteBoundary(b)
  \/ \E w \in WillEmit(responseState) : WritePreamble(w)

SpecHoist == InitNested /\ [][NextHoist]_vars

\* preload and preinit called inside and outside the bracket of
\* prepareToRenderResources and finishRenderingResources
NextDispatch ==
  \/ PrepareToRenderResources
  \/ FinishRenderingResources
  \/ \E h \in Hrefs, as \in ResourceTypes : Preload(h, as)
  \/ \E h \in Hrefs, p \in Precedences \cup {Undefined} : Preinit(h, "style", p)
  \/ \E h \in Hrefs : Preinit(h, "script", Undefined)

SpecDispatch == InitIdle /\ [][NextDispatch]_vars

\* the chunks that are written: of every length up to one more than the view
Bytes == {1, 2}

Chunks == UNION {[1 .. n -> Bytes] : n \in 0 .. ViewSize + 1}

BeginWriting ==
  /\ Live /\ streamConfig.currentView = <<>> /\ driver.pushes < MaxPush
  /\ streamConfig' = prepareNewView
  /\ lastOp' = Op("beginWriting", "", 0)
  /\ driver' = [driver EXCEPT !.pushes = @ + 1]
  /\ UNCHANGED <<resources, boundaries, responseState, task, segment, destination,
                 lastOut, currentResources, currentResourcesStack, otherResources,
                 newContext>>

\* writeChunk (andReturn = FALSE) or writeChunkAndReturn
WriteChunk(chunk, andReturn) ==
  /\ Live /\ streamConfig.currentView # <<>> /\ driver.writes < MaxWrites
  /\ LET r == writeChunk(streamConfig, chunk)
     IN /\ streamConfig' = r.view
        /\ destination' = destination \o r.enqueued
        /\ lastOut' = r.enqueued
        /\ lastOp' = Thrown(Op(IF andReturn THEN "writeChunkAndReturn" ELSE "writeChunk",
                               "", Len(chunk)), r.threw)
        /\ driver' = [driver EXCEPT !.writes = @ + 1,
                                    !.written = IF r.threw THEN @ ELSE Append(@, chunk)]
  /\ UNCHANGED <<resources, boundaries, responseState, task, segment,
                 currentResources, currentResourcesStack, otherResources, newContext>>

CompleteWriting ==
  /\ Live /\ streamConfig.currentView # <<>>
  /\ LET r == completeWriting(streamConfig)
     IN /\ streamConfig' = r.view
        /\ destination' = destination \o r.enqueued
        /\ lastOut' = r.enqueued
  /\ lastOp' = Op("completeWriting", "", 0)
  /\ UNCHANGED <<resources, boundaries, responseState, task, segment, driver,
                 currentResources, currentResourcesStack, otherResources, newContext>>

NextView ==
  \/ BeginWriting
  \/ \E chunk \in Chunks, andReturn \in BOOLEAN : WriteChunk(chunk, andReturn)
  \/ CompleteWriting

SpecView == InitNoRuntime /\ [][NextView]_vars

\* the providers that are pushed over the whole run
MaxProviders == 3

ProviderValues == {1, 2}

\* what popProvider is to restore
Snapshot(context) ==
  [currentValue |-> newContext.contexts[context].currentValue,
   currentChangedBits |-> newContext.contexts[context].currentChangedBits,
   propagationSigil |-> newContext.propagationSigil,
   propagationHasChangedBits |-> newContext.propagationHasChangedBits,
   height |-> Len(newContext.valueStack)]

\* a Provider fiber of context begins: pushProvider
PushProvider(context, nextValue, nextChangedBits) ==
  /\ Live /\ newContext.sigils < MaxProviders
  /\ newContext' = pushProvider(newContext, context, nextValue, nextChangedBits)
  /\ lastOp' = Op("pushProvider", context, nextChangedBits)
  /\ driver' = [driver EXCEPT
                  !.providers = Append(@, [context |-> context,
                                           before |-> Snapshot(context)])]
  /\ UNCHANGED <<resources, boundaries, responseState, task, segment, destination,
                 lastOut, currentResources, currentResourcesStack, otherResources,
                 streamConfig>>

\* the innermost Provider fiber completes or unwinds: popProvider
PopProvider ==
  /\ Live /\ driver.providers # <<>>
  /\ LET fiber == driver.providers[Len(driver.providers)]
     IN /\ newContext' = popProvider(newContext, fiber.context)
        /\ lastOp' = Op("popProvider", fiber.context, 0)
  /\ driver' = [driver EXCEPT !.providers = SubSeq(@, 1, Len(@) - 1)]
  /\ UNCHANGED <<resources, boundaries, responseState, task, segment, destination,
                 lastOut, currentResources, currentResourcesStack, otherResources,
                 streamConfig>>

NextProvider ==
  \/ \E context \in Contexts, nextValue \in ProviderValues, nextChangedBits \in {0, 1} :
       PushProvider(context, nextValue, nextChangedBits)
  \/ PopProvider

SpecProvider == InitNoRuntime /\ [][NextProvider]_vars

\* two requests rendered one inside the other, in any nesting, with preload and
\* preinit called at every depth
NextNesting ==
  \/ \E res \in {RequestResources, OtherResources} : PrepareToRender(res)
  \/ FinishRenderingResources
  \/ \E h \in Hrefs, as \in ResourceTypes :
       currentResources # OtherResources /\ Preload(h, as)
  \/ \E h \in Hrefs, p \in Precedences :
       currentResources # OtherResources /\ Preinit(h, "style", p)
  \/ \E h \in Hrefs, as \in ResourceTypes : DispatchOther("preload", h, as, Undefined)
  \/ \E h \in Hrefs, p \in Precedences : DispatchOther("preinit", h, "style", p)

SpecNesting == InitIdle /\ [][NextNesting]_vars

\* stylesheets are rendered in the boundaries; after the shell is flushed the
\* boundaries and segments complete or fail in any order
NextInstructed ==
  \/ \E b \in {"B:0", ContainerID, Null} :
       ~driver.preamble /\ RenderStylesheet(b, "a", "p1")
  \/ \E w \in WillEmit(responseState) : WritePreamble(w)
  \/ \E b \in InstructedBoundaries : driver.preamble /\ CompleteBoundary(b)
  \/ \E b \in InstructedBoundaries : WriteClientRenderBoundaryInstruction(b)
  \/ \E id \in Segments : WriteCompletedSegmentInstruction(id)

SpecInstructed == InitInstructed /\ [][NextInstructed]_vars

\* the same response in either streaming format
InitFormat ==
  InitResponse(ExternalRuntimes, InstructedBoundaries, RequestResources, {<<>>}, {<<>>},
               {ContainerID})

SpecFormat == InitFormat /\ [][NextInstructed]_vars

\* a stylesheet rendered in boundary b, or at the root
RenderDependency(b, href, precedence) ==
  /\ Live /\ driver.regs < MaxDeps
  /\ b \notin driver.completed
  /\ task.stack = <<>>
  /\ LET res == setCurrentlyRenderingBoundaryResourcesTarget(resources, b)
         r == pushStartInstance(segment, "link", StylesheetProps(href, precedence),
                                responseState, res, boundaries,
                                createRootFormatContext, lastPushedText(segment))
     IN /\ Quiet(RegOp("render", "link:stylesheet", href, precedence, b),
                 r.res, r.bnd, r.rs, [driver EXCEPT !.regs = @ + 1])
        /\ segment' = pushEndInstance(r.target, "link", createRootFormatContext)
  /\ UNCHANGED task

\* stylesheets rendered in two boundaries and at the root, before and after
\* the shell is flushed, and the boundaries completing
NextDependent ==
  \/ \E b \in NestedBoundaries \cup {Null}, href \in Hrefs :
       RenderDependency(b, href, "p1")
  \/ \E w \in WillEmit(responseState) : WritePreamble(w)
  \/ \E b \in NestedBoundaries : CompleteBoundary(b)

SpecDependent == InitDependent /\ [][NextDependent]_vars

\* stylesheets preinitialized and rendered at the root and in a boundary,
\* before and after the shell is flushed, every flush, and the boundary
\* completing
NextInShell ==
  \/ \E h \in Hrefs, p \in Precedences : Preinit(h, "style", p)
  \/ \E b \in Boundaries \cup {Null}, href \in Hrefs : RenderDependency(b, href, "p1")
  \/ \E w \in WillEmit(responseState) : WriteEarlyPreamble(w)
  \/ \E w \in WillEmit(responseState) : WritePreamble(w)
  \/ \E w \in WillEmit(responseState) : WriteResources(w)
  \/ \E b \in Boundaries : CompleteBoundary(b)

SpecInShell == InitNoRuntime /\ [][NextInShell]_vars

\* boundaries that complete, error or stay pending after the shell, in a
\* response with bootstrap scripts
NextBootstrapped ==
  \/ \E b \in {"B:0", ContainerID} :
       ~driver.preamble /\ RenderStylesheet(b, "a", "p1")
  \/ \E w \in WillEmit(responseState) : WritePreamble(w)
  \/ \E b \in BootstrappedBoundaries : driver.preamble /\ CompleteBoundary(b)
  \/ \E b \in BootstrappedBoundaries : WriteClientRenderBoundaryInstruction(b)
  \/ \E b \in BootstrappedBoundaries : WriteStartPendingSuspenseBoundary(b)
  \/ PrepareForFallback

SpecBootstrapped == InitBootstrapped /\ [][NextBootstrapped]_vars

\* void elements and links rendered with and without content, at the root
\* and inside <div>, <noscript> and <svg>
NextVoid ==
  \/ \E type \in {"div", "noscript", "svg"} : PushStartInstance(type)
  \/ \E type \in VoidTags \ {"link"},
        children \in {Null, Undefined, "a"},
        html \in {Null, "a"} :
       PushStartElement(type, ElementProps(children, html))
  \/ \E props \in Links : PushStartElement("link", props)
  \/ PushEndInstance
  \/ \E w \in WillEmit(responseState) : WritePreamble(w)

SpecVoid == InitNoRuntime /\ [][NextVoid]_vars

\* what the props of <textarea>, <pre> and <listing> hold: nothing, a string
\* or an array of one string, with and without a newline in front
Contents == {Null, "a", "\na", ArrayOf("\na")}

\* <textarea>, <pre> and <listing> rendered with every content
NextContent ==
  \/ \E value \in Contents, defaultValue \in Contents, children \in Contents :
       PushStartElement("textarea", TextAreaProps(value, defaultValue, children))
  \/ \E type \in {"pre", "listing"}, children \in Contents, html \in Contents :
       PushStartElement(type, ElementProps(children, html))
  \/ PushEndInstance

SpecContent == InitNoRuntime /\ [][NextContent]_vars

\* the running task renders a <title>, <meta>, <link> or <script> with props as
\* a child of the element it is in
RenderInScope(type, props) ==
  /\ Live
  /\ RenderChild(Null, type, props,
                 Op("render", type, task.formatContext.insertionMode)
                   @@ [props |-> props,
                       noscriptTagInScope |-> task.formatContext.noscriptTagInScope])

\* the <link>s that are rendered in and out of <noscript>: a stylesheet with a
\* precedence, a preload and an icon
ScopedLinks ==
  {l \in Links : /\ l.children = Null /\ ~l.handlers
                 /\ l.rel = "stylesheet" => l.precedence = "p1"}

\* <title>, <meta>, <link> and <script> rendered at the root, after text and
\* inside <noscript> and <svg>
NextNoscript ==
  \/ \E type \in {"noscript", "svg"} : PushStartInstance(type)
  \/ PushEndInstance
  \/ PushText
  \/ RenderInScope("title", NoProps)
  \/ \E charSet \in BOOLEAN : RenderInScope("meta", MetaProps(charSet))
  \/ \E props \in ScopedLinks : RenderInScope("link", props)
  \/ RenderInScope("script", ScriptProps("b"))

SpecNoscript == InitNoRuntime /\ [][NextNoscript]_vars

\* the strings that are interpolated into an instruction
Inputs == UNION {[1 .. n -> Alphabet] : n \in 0 .. MaxLen}

\* a response that is about to write input into an instruction
InitEscape ==
  /\ currentResources = RequestResources
  /\ currentResourcesStack = <<>>
  /\ otherResources = createResources
  /\ streamConfig = resetView
  /\ newContext = createContexts
  /\ resources = createResources
  /\ boundaries = [b \in Boundaries |-> createBoundaryResources]
  /\ responseState = createResponseState(<<>>, <<>>, Undefined, ContainerID, FALSE)
  /\ task = NewTask(createRootFormatContext)
  /\ segment = <<>>
  /\ destination = <<>>
  /\ lastOut = <<>>
  /\ \E input \in Inputs : lastOp = Call["createRequest"] @@ [input |-> input]
  /\ driver = [preamble |-> FALSE, postamble |-> FALSE, fallback |-> FALSE,
               writes |-> 0, regs |-> 0, pushes |-> 0,
               suspended |-> {}, completed |-> {}, styles |-> <<>>, scoped |-> {},
               repeat |-> NoRepeat, prepared |-> <<>>, written |-> <<>>,
               providers |-> <<>>]

\* the input is escaped as the digest, the message or the stack of an error
EscapeJSStrings ==
  /\ lastOp.op = "createRequest"
  /\ lastOp' = [lastOp EXCEPT !.op = "escapeJSStringsForInstructionScripts"]
                 @@ [output |-> escapeJSStringsForInstructionScripts(lastOp.input)]
  /\ UNCHANGED <<resources, boundaries, responseState, task, segment, destination,
                 lastOut, driver, currentResources, currentResourcesStack,
                 otherResources, streamConfig, newContext>>

\* the input is escaped as the href, the precedence or an attribute of a
\* stylesheet a boundary depends on
EscapeJSObject ==
  /\ lastOp.op = "createRequest"
  /\ lastOp' = [lastOp EXCEPT !.op = "escapeJSObjectForInstructionScripts"]
                 @@ [output |-> escapeJSObjectForInstructionScripts(lastOp.input)]
  /\ UNCHANGED <<resources, boundaries, responseState, task, segment, destination,
                 lastOut, driver, currentResources, currentResourcesStack,
                 otherResources, streamConfig, newContext>>

NextEscape == EscapeJSStrings \/ EscapeJSObject

SpecEscape == InitEscape /\ [][NextEscape]_vars

(***************************************************************************)
(* A response streamed while its content resolves.  The tree is a <div>     *)
(* and three texts that suspend, inside the Suspense boundary B:0; S:0 is   *)
(* the root segment of the boundary's content and the texts are the        *)
(* segments S:1, S:2 and S:3.                                              *)
(***************************************************************************)
AsyncSegments == <<"S:1", "S:2", "S:3">>

Node(t, id) == Chunk(t, id, "", "stream")

startCompletedSuspenseBoundary == Node("<!--$-->", "")
endSuspenseBoundary == Node("<!--/$-->", "")

\* the text of a suspended segment is rendered once its task has resolved
Resolved(s) == \E i \in DOMAIN segment : segment[i] = Node("text", s)

\* the content of the boundary as it is flushed: a segment that is resolved
\* is written where it belongs, one that is not leaves a placeholder
ContentRoot ==
  <<Node("div", "container")>>
  \o [i \in DOMAIN AsyncSegments |->
        IF Resolved(AsyncSegments[i]) THEN Node("text", AsyncSegments[i])
        ELSE Node("placeholder", AsyncSegments[i])]

\* <div hidden id=...>, the content, </div>
SegmentContainer(id, content) ==
  <<Node("startSegment", id)>> \o content \o <<Node("endSegment", id)>>

\* the task of a suspended text resolves, at any time
Resolve(s) ==
  /\ Live /\ ~Resolved(s)
  /\ segment' = Append(segment, Node("text", s))
  /\ Quiet(Op("resolve", s, 0), resources, boundaries, responseState, driver)
  /\ UNCHANGED task

\* the root segment is flushed after the preamble: the boundary is written
\* complete when all its tasks have resolved, and pending otherwise
FlushRoot ==
  /\ Live /\ driver.preamble /\ "root" \notin driver.completed
  /\ IF \A i \in DOMAIN AsyncSegments : Resolved(AsyncSegments[i])
     THEN Written(Op("flushSegment", "root", 0), resources, responseState,
                  <<startCompletedSuspenseBoundary>> \o ContentRoot
                    \o <<endSuspenseBoundary>>,
                  [driver EXCEPT !.completed = @ \cup {"root", "B:0"}])
     ELSE LET r == writeStartPendingSuspenseBoundary(responseState, "B:0")
          IN Written(Op("flushSegment", "root", 0), resources, r.rs,
                     r.out \o <<Node("fallback", "B:0"), endSuspenseBoundary>>,
                     [driver EXCEPT !.completed = @ \cup {"root"}])
  /\ UNCHANGED <<boundaries, task, segment>>

\* the root segment of the pending boundary is flushed into a hidden container
FlushContentRoot ==
  /\ Live /\ "root" \in driver.completed /\ "B:0" \notin driver.completed
  /\ "S:0" \notin driver.completed
  /\ Written(Op("flushSegmentContainer", "S:0", 0), resources, responseState,
             SegmentContainer("S:0", ContentRoot),
             [driver EXCEPT !.completed =
                @ \cup {"S:0"}
                  \cup {AsyncSegments[i] : i \in {j \in DOMAIN AsyncSegments :
                                                    Resolved(AsyncSegments[j])}}])
  /\ UNCHANGED <<boundaries, task, segment>>

\* a segment that resolved after its parent was flushed is written into a
\* hidden container, with the instruction that moves it into its placeholder
FlushPartiallyCompletedSegment(s) ==
  /\ Live /\ "S:0" \in driver.completed /\ "B:0" \notin driver.completed
  /\ Resolved(s) /\ s \notin driver.completed
  /\ LET r == writeCompletedSegmentInstruction(responseState, s)
     IN Written(Op("writeCompletedSegmentInstruction", s, 0), resources, r.rs,
                SegmentContainer(s, <<Node("text", s)>>) \o r.out,
                [driver EXCEPT !.completed = @ \cup {s}])
  /\ UNCHANGED <<boundaries, task, segment>>

\* all segments of the boundary are flushed: the boundary is completed
FlushCompletedBoundary ==
  /\ Live /\ "B:0" \notin driver.completed
  /\ {"S:0"} \cup {AsyncSegments[i] : i \in DOMAIN AsyncSegments} \subseteq driver.completed
  /\ LET r == writeCompletedBoundaryInstruction(resources, responseState, "B:0",
                                                boundaries["B:0"])
     IN Written(Op("writeCompletedBoundaryInstruction", "B:0", 0), r.res, r.rs, r.out,
                [driver EXCEPT !.completed = @ \cup {"B:0"}])
  /\ UNCHANGED <<boundaries, task, segment>>

NextStream ==
  \/ \E i \in DOMAIN AsyncSegments : Resolve(AsyncSegments[i])
  \/ \E w \in WillEmit(responseState) : WritePreamble(w)
  \/ FlushRoot
  \/ FlushContentRoot
  \/ \E i \in DOMAIN AsyncSegments : FlushPartiallyCompletedSegment(AsyncSegments[i])
  \/ FlushCompletedBoundary

SpecStream == InitNoRuntime /\ [][NextStream]_vars

\* the shell and the boundaries written to a sink that answers
NextSink ==
  \/ \E b \in {"B:0", Null} : ~driver.preamble /\ RenderStylesheet(b, "a", "p1")
  \/ \E charSet \in BOOLEAN : ~driver.preamble /\ RenderMeta(charSet)
  \/ \E sink \in Sinks, w \in WillEmit(responseState) : WritePreambleTo(sink, w)
  \/ \E sink \in Sinks, b \in {"B:0", ContainerID} :
       WriteStartClientRenderedSuspenseBoundaryTo(sink, b)
  \/ \E sink \in Sinks, b \in {"B:0", ContainerID} :
       WriteCompletedBoundaryInstructionTo(sink, b)

SpecSink == InitBootstrapped /\ [][NextSink]_vars

CrossOrigins == {Undefined, "anonymous", "use-credentials"}

\* preloads and preinits of a that give crossOrigin, and flushes
NextAdopt ==
  \/ \E as \in {"style", "script"}, co \in CrossOrigins : PreloadWith("a", as, co)
  \/ \E p \in Precedences, co \in CrossOrigins : PreinitWith("a", "style", p, co)
  \/ \E co \in CrossOrigins : PreinitWith("a", "script", Undefined, co)
  \/ \E w \in WillEmit(responseState) : WritePreamble(w)
  \/ \E w \in WillEmit(responseState) : WriteResources(w)

SpecAdopt == InitNoRuntime /\ [][NextAdopt]_vars

\* the script a is preloaded and then preinitialized; b and a <title> are
\* registered around it, and the queues are flushed at any time
NextPreloadPreinit ==
  \/ Unregistered("a") /\ Preload("a", "script")
  \/ "a" \in DOMAIN resources.preloadsMap /\ Preinit("a", "script", Undefined)
  \/ \E as \in ResourceTypes : Preload("b", as)
  \/ \E p \in Precedences : Preinit("b", "style", p)
  \/ ~driver.preamble /\ RenderTitle
  \/ \E w \in WillEmit(responseState) : WriteEarlyPreamble(w)
  \/ \E w \in WillEmit(responseState) : WritePreamble(w)
  \/ \E w \in WillEmit(responseState) : WriteResources(w)

SpecPreloadPreinit == Init /\ [][NextPreloadPreinit]_vars

(***************************************************************************)
(* Properties                                                              *)
(***************************************************************************)
TypeOK ==
  /\ responseState.rendered \in 0..15
  /\ responseState.flushed \in 0..7

Count(out, P(_)) == Cardinality({i \in DOMAIN out : P(out[i])})

AllHrefs == Hrefs \cup {RuntimeSrc}

\* the tag of the preload, of the stylesheet and of the script registered under h
IsPreloadTag(c, h) == c.t = "link:preload" /\ c.h = h /\ c.q # "inplace"
IsStylesheetTag(c, h) ==
  c.h = h /\ (c.t = "dependency" \/ (c.t = "link:stylesheet" /\ c.q = "precedences"))
IsScriptTag(c, h) == c.t = "script" /\ c.h = h /\ c.q = "scripts"
IsResourceTag(c, h) == IsPreloadTag(c, h) \/ IsStylesheetTag(c, h) \/ IsScriptTag(c, h)

\* C1: whatever is registered and flushed in whatever order, the tag of a
\* resource (a preload, a stylesheet, a script) is written to the destination at
\* most once: a resource that is flushed is never emitted again, whichever
\* queue it is added to again.
C1_ResourceWrittenAtMostOnce ==
  \A h \in AllHrefs :
    /\ Count(destination, LAMBDA c : IsPreloadTag(c, h)) <= 1
    /\ Count(destination, LAMBDA c : IsStylesheetTag(c, h)) <= 1
    /\ Count(destination, LAMBDA c : IsScriptTag(c, h)) <= 1

\* a flush that drains the queues of the registry has just run
Drained ==
  \/ lastOp.op \in {"writePreamble", "writeResources"}
  \/ lastOp.op = "writeEarlyPreamble" /\ responseState.rendered # NONE

\* C2: a registration called a second time with the same arguments leaves the
\* registry, the boundaries, the response state and the target as the first call
\* left them, so that the flush that follows writes what it would have written
\* after one call; and if the URL was not registered before, that flush writes
\* exactly one resource tag for it.
C2_RegisteredTwice ==
  [][/\ (lastOp' = lastOp /\ lastOp'.href # "")
          => UNCHANGED <<resources, boundaries, responseState, segment>>
     /\ (Drained' /\ driver'.repeat.n >= 2 /\ driver'.repeat.fresh)
          => Count(lastOut', LAMBDA c : IsResourceTag(c, driver'.repeat.href)) = 1
    ]_vars

C2_Witness ==
  /\ lastOp.op = "writePreamble"
  /\ driver.repeat.n = 2 /\ driver.repeat.fresh
  /\ Count(lastOut, LAMBDA c : IsResourceTag(c, driver.repeat.href)) = 1

HasTag(f, tag) == (f \div tag) % 2 = 1

OpenTag(type) == "<" \o type \o ">"
CloseTag(type) == "</" \o type \o ">"

\* the wrapper's open tag written by the preamble, buffered or synthesized
IsPreambleOpen(c, type) ==
  c.t = OpenTag(type) /\ c.q \in {"htmlChunks", "headChunks", "preamble"}

\* C3: over one response, with writeEarlyPreamble called any number of times,
\* writePreamble at most once, and pushes and prepareForFallback in between, the
\* preamble writes the <html> open tag at most once and the <head> open tag at
\* most once, and synthesizes a <body> open tag at most once.
C3_PreambleTagsOnce ==
  /\ Count(destination, LAMBDA c : IsPreambleOpen(c, "html")) <= 1
  /\ Count(destination, LAMBDA c : IsPreambleOpen(c, "head")) <= 1
  /\ Count(destination, LAMBDA c : c.t = OpenTag("body") /\ c.q = "preamble") <= 1

C3_Witness ==
  /\ lastOp.op = "writePreamble" /\ driver.writes = 2 /\ driver.fallback
  /\ Count(destination, LAMBDA c : IsPreambleOpen(c, "html")) = 1
  /\ Count(destination, LAMBDA c : IsPreambleOpen(c, "head")) = 1
  /\ Count(destination, LAMBDA c : c.t = OpenTag("body") /\ c.q = "preamble") = 1

IsTopClose(c) == c.t \in {CloseTag("body"), CloseTag("html")} /\ c.x = "top"

\* a top-level </body> or </html> is written by the postamble alone, and nothing
\* but the postamble follows it
NoPrematureClose(out) ==
  \A i \in DOMAIN out :
    IsTopClose(out[i]) =>
      /\ out[i].q = "postamble"
      /\ \A j \in DOMAIN out : j > i => out[j].q = "postamble"

\* C4: pushEndInstance pushes nothing for an <html> in the root mode and for a
\* <body> in the root or html mode, and pushes the closing tag in place for an
\* <html> or <body> in a deeper mode; the </body> and </html> of the top-level
\* wrappers are written by writePostamble alone, after every chunk of content.
C4_ClosingTagsDeferred ==
  [][/\ (lastOp'.op = "pushEndInstance" /\ lastOp'.type \in {"html", "body"})
          => IF \/ lastOp'.type = "html" /\ lastOp'.mode = ROOT_HTML_MODE
                \/ lastOp'.type = "body" /\ lastOp'.mode <= HTML_HTML_MODE
             THEN segment' = segment
             ELSE segment' = Append(segment, endTag(lastOp'.type, "nested", "inplace"))
     /\ \A i \in DOMAIN segment' : ~IsTopClose(segment'[i])
     /\ NoPrematureClose(destination')
    ]_vars

C4_Witness ==
  /\ lastOp.op = "writePostamble"
  /\ \E i, j \in DOMAIN destination :
       /\ i < j
       /\ destination[i] = endTag("body", "nested", "inplace")
       /\ destination[j] = endTag("body", "top", "postamble")

\* C5: when writePostamble runs, a top-level <body> (resp. <html>) open tag
\* that was written to the destination at any point has its tag in flushed and
\* gets its </body> (resp. </html>), and a wrapper whose open tag was never
\* written gets no closing tag.
C5_WrappersClosed ==
  lastOp.op = "writePostamble" =>
    \A type \in {"body", "html"} :
      LET opened == \E i \in DOMAIN destination :
                      destination[i].t = OpenTag(type) /\ destination[i].x = "top"
          closed == endTag(type, "top", "postamble") \in Range(lastOut)
      IN /\ opened <=> closed
         /\ opened => HasTag(responseState.flushed, IF type = "body" THEN BODY ELSE HTML)

\* what C6 says writePostamble writes when flushed is f
PostambleOf(f) ==
  (IF HasTag(f, BODY) THEN <<endTag("body", "top", "postamble")>> ELSE <<>>)
  \o (IF HasTag(f, HTML) THEN <<endTag("html", "top", "postamble")>> ELSE <<>>)

\* C6: writePostamble writes </body> exactly when BODY is in flushed, then
\* </html> exactly when HTML is in flushed, nothing else, and leaves the
\* ResponseState as it was.
C6_Postamble ==
  [][lastOp'.op = "writePostamble"
       => /\ responseState' = responseState
          /\ lastOut' = PostambleOf(responseState.flushed)
          /\ destination' = destination \o lastOut'
    ]_vars

C6_Witness ==
  /\ lastOp.op = "writePostamble"
  /\ lastOut = <<endTag("body", "top", "postamble"), endTag("html", "top", "postamble")>>

SyntheticOpen(type) == startTag(type, "top", "preamble")

\* the preamble flush that writes the open tags: writePreamble, or a
\* writeEarlyPreamble that acts, while nothing is flushed yet
FirstPreambleFlush(op, rs) ==
  /\ \/ op.op = "writePreamble"
     \/ op.op = "writeEarlyPreamble" /\ rs.requiresEmbedding /\ rs.rendered # NONE
  /\ rs.flushed = NONE

\* C7 (as amended): at the first preamble flush of a response that requires
\* embedding, a synthetic <html> is written exactly if no <html> was rendered
\* and a synthetic <head> exactly if no <head> was rendered.  For a response that
\* does not require embedding no <html> is synthesized, and a <head> is
\* synthesized exactly if an <html> was rendered and no <head> was.  No later
\* preamble flush synthesizes either.
C7_SyntheticWrappers ==
  [][lastOp'.op \in {"writePreamble", "writeEarlyPreamble"}
       => LET rs == responseState
              first == FirstPreambleFlush(lastOp', rs)
              html == HasTag(rs.rendered, HTML)
              head == HasTag(rs.rendered, HEAD)
          IN /\ SyntheticOpen("html") \in Range(lastOut')
                  <=> first /\ ~html /\ rs.requiresEmbedding
             /\ SyntheticOpen("head") \in Range(lastOut')
                  <=> first /\ ~head /\ (rs.requiresEmbedding \/ html)
    ]_vars

C7_Witness ==
  /\ lastOp.op = "writePreamble"
  /\ responseState.requiresEmbedding
  /\ HasTag(responseState.rendered, BODY)
  /\ SyntheticOpen("html") \in Range(lastOut)
  /\ SyntheticOpen("head") \in Range(lastOut)

\* C7: at the first preamble flush a synthetic <html> is written if no <html>
\* was rendered and a synthetic <head> is written if no <head> was rendered,
\* whatever the configuration of the response.
C7_SyntheticAlways ==
  [][FirstPreambleFlush(lastOp', responseState)
       => /\ ~HasTag(responseState.rendered, HTML)
               => SyntheticOpen("html") \in Range(lastOut')
          /\ ~HasTag(responseState.rendered, HEAD)
               => SyntheticOpen("head") \in Range(lastOut')
    ]_vars

\* what was written, without the DOCTYPE
Tags(out) ==
  LET tags == SelectSeq(out, LAMBDA c : c # DOCTYPE)
  IN [i \in DOMAIN tags |-> tags[i].t]

Skeleton ==
  <<OpenTag("html"), OpenTag("head"), CloseTag("head"),
    OpenTag("body"), CloseTag("body"), CloseTag("html")>>

\* writePreamble and then writePostamble were called on a response on which
\* nothing was rendered and nothing registered
FreshRoundTrip ==
  /\ lastOp.op = "writePostamble"
  /\ driver.preamble /\ driver.writes = 1
  /\ driver.pushes = 0 /\ driver.regs = 0

\* C8 (as amended): on a fresh response that requires embedding, writePreamble
\* followed by writePostamble writes exactly
\* <html><head></head><body></body></html>; on a fresh response that does not
\* require embedding they write nothing.
C8_SkeletonIfEmbedding ==
  FreshRoundTrip =>
    Tags(destination) = IF responseState.requiresEmbedding THEN Skeleton ELSE <<>>

C8_Witness ==
  FreshRoundTrip /\ responseState.requiresEmbedding /\ Tags(destination) = Skeleton

\* C8: on a fresh response writePreamble followed by writePostamble writes
\* exactly <html><head></head><body></body></html>.
C8_SkeletonAlways == FreshRoundTrip => Tags(destination) = Skeleton

\* the order in which C9 says writePreamble writes
PreambleOrder ==
  <<"charsetChunks", "bases", "preconnects", "fontPreloads", "precedences",
    "usedStylePreloads", "scripts", "usedScriptPreloads", "explicitStylePreloads",
    "explicitScriptPreloads", "headResources">>

IndexOf(seq, e) == CHOOSE i \in DOMAIN seq : seq[i] = e

\* the open tags come first; title, meta and link hoistables are the last group;
\* the </head> and <body> that end the preamble follow everything
Rank(c) ==
  CASE c.q \in Range(PreambleOrder) -> IndexOf(PreambleOrder, c.q)
    [] c.q = "hoistableChunks" -> Len(PreambleOrder)
    [] c = DOCTYPE \/ c.q \in {"htmlChunks", "headChunks"} -> 0
    [] c.q = "preamble" -> IF c.t \in {OpenTag("html"), OpenTag("head")}
                           THEN 0 ELSE Len(PreambleOrder) + 1
    [] OTHER -> Len(PreambleOrder) + 1

\* C9: within one writePreamble call the open tags of the preamble come first,
\* then the charset meta, then what the queues hold in the order bases,
\* preconnects, font preloads, precedence groups, used style preloads, scripts,
\* used script preloads, explicit style preloads, explicit script preloads, head
\* resources and hoistables: nothing of a later group is written before
\* something of an earlier group, in whatever order they were registered.
C9_FixedOrder ==
  lastOp.op = "writePreamble" =>
    \A i, j \in DOMAIN lastOut : i < j => Rank(lastOut[i]) <= Rank(lastOut[j])

C9_Witness ==
  /\ lastOp.op = "writePreamble"
  /\ \E i, j, k \in DOMAIN lastOut :
       /\ i < j /\ j < k
       /\ lastOut[i].q = "htmlChunks" \/ lastOut[i].q = "preamble"
       /\ lastOut[j].q = "fontPreloads"
       /\ lastOut[k].q = "explicitStylePreloads"

IsStylesheetOf(c, p) == c.t = "link:stylesheet" /\ c.q = "precedences" /\ c.x = p

IsPlaceholderOf(c, p) == c.t = "style:placeholder" /\ c.x = p

PrecedenceOf(res, href) == res.stylesMap[href].precedence

\* the stylesheets in hrefs that share a precedence were written in the order
\* in which they were registered
InRegistrationOrder(out, d, res, hrefs) ==
  \A i, j \in DOMAIN d.styles :
    (/\ i < j
     /\ d.styles[i] \in hrefs /\ d.styles[j] \in hrefs
     /\ PrecedenceOf(res, d.styles[i]) = PrecedenceOf(res, d.styles[j])) =>
      \A m, n \in DOMAIN out :
        (/\ IsStylesheetOf(out[m], PrecedenceOf(res, d.styles[i]))
         /\ out[m].h = d.styles[i]
         /\ IsStylesheetOf(out[n], PrecedenceOf(res, d.styles[i]))
         /\ out[n].h = d.styles[j]) => m < n

\* the precedence groups of one flush follow precedenceOrder
GroupsInPrecedenceOrder(out, res) ==
  \A m, n \in DOMAIN out :
    (/\ m < n
     /\ out[m].q = "precedences" /\ out[n].q = "precedences") =>
      IndexOf(res.precedenceOrder, out[m].x) <= IndexOf(res.precedenceOrder, out[n].x)

\* every registered precedence has a stylesheet link or a placeholder in out
Represented(out, res) ==
  \A p \in Range(res.precedenceOrder) :
    \E m \in DOMAIN out : IsStylesheetOf(out[m], p) \/ IsPlaceholderOf(out[m], p)

ShellFlush == lastOp'.op = "writePreamble" /\ lastOp' # lastOp

\* the precedences whose set is empty when the shell is flushed
EmptyAtFlush == {p \in Range(resources.precedenceOrder) : resources.precedences[p] = <<>>}

FlushedEarly(p) ==
  resources.firstPrecedenceFlushed /\ resources.firstPrecedence = p

\* C10: the stylesheets of one precedence that were registered at the root are
\* written in registration order; in the shell flush the precedence groups
\* follow the order in which the precedences were first seen; writePreamble
\* writes a placeholder for exactly those precedences whose set is empty and
\* that were not already flushed as the first precedence by writeEarlyPreamble;
\* after the shell flush every registered precedence has a stylesheet link or a
\* placeholder in the document.
C10_PrecedenceOrder ==
  [][ /\ InRegistrationOrder(destination', driver', resources',
                             Range(driver'.styles) \ driver'.scoped)
      /\ ShellFlush =>
           /\ GroupsInPrecedenceOrder(lastOut', resources')
           /\ \A p \in Range(resources.precedenceOrder) :
                (\E m \in DOMAIN lastOut' : IsPlaceholderOf(lastOut'[m], p))
                  <=> (p \in EmptyAtFlush /\ ~FlushedEarly(p))
           /\ Represented(destination', resources') ]_vars

\* a stylesheet registered at the root is written by the shell flush, followed
\* by the placeholder of a later precedence whose only stylesheet belongs to a
\* boundary that has not completed
C10_Witness ==
  /\ lastOp.op = "writePreamble"
  /\ Len(driver.styles) = 2 /\ driver.styles[2] \in driver.scoped
  /\ \E m, n \in DOMAIN lastOut :
       /\ m < n
       /\ IsStylesheetOf(lastOut[m], PrecedenceOf(resources, driver.styles[1]))
       /\ lastOut[m].h = driver.styles[1]
       /\ IsPlaceholderOf(lastOut[n], PrecedenceOf(resources, driver.styles[2]))

\* C10 as stated: every stylesheet of a precedence registered before the first
\* flush is written in registration order, and an empty set always gets its
\* placeholder at the shell flush
C10_AsStated ==
  [][ /\ driver'.writes = 1 =>
           InRegistrationOrder(destination', driver', resources', Range(driver'.styles))
      /\ ShellFlush =>
           /\ GroupsInPrecedenceOrder(lastOut', resources')
           /\ \A p \in EmptyAtFlush :
                \E m \in DOMAIN lastOut' : IsPlaceholderOf(lastOut'[m], p)
           /\ Represented(destination', resources') ]_vars

EarlyFlush == lastOp'.op = "writeEarlyPreamble" /\ driver'.writes = driver.writes + 1

\* the stylesheets of precedence p that a flush of p's set has to write
Unflushed(p) ==
  {h \in Range(resources.precedences[p]) : ~resources.stylesMap[h].flushed}

\* C11: writeEarlyPreamble writes the stylesheets of the first precedence only
\* and no placeholder; the shell flush (writePreamble) writes the stylesheets
\* of every precedence whose set is not empty as <link> tags, and a
\* placeholder only for a precedence whose set is empty.
C11_ShellStylesheets ==
  [][ /\ EarlyFlush =>
           \A m \in DOMAIN lastOut' :
             lastOut'[m].q = "precedences" =>
               IsStylesheetOf(lastOut'[m], resources.firstPrecedence)
      /\ ShellFlush =>
           \A p \in Range(resources.precedenceOrder) :
             /\ \A h \in Unflushed(p) :
                  \E m \in DOMAIN lastOut' :
                    IsStylesheetOf(lastOut'[m], p) /\ lastOut'[m].h = h
             /\ (\E m \in DOMAIN lastOut' : IsPlaceholderOf(lastOut'[m], p))
                  => resources.precedences[p] = <<>> ]_vars

\* the shell flush wrote the stylesheets of two precedences as links
C11_Witness ==
  /\ lastOp.op = "writePreamble"
  /\ \E m, n \in DOMAIN lastOut :
       /\ m < n
       /\ lastOut[m].t = "link:stylesheet" /\ lastOut[m].q = "precedences"
       /\ lastOut[n].t = "link:stylesheet" /\ lastOut[n].q = "precedences"
       /\ lastOut[m].x # lastOut[n].x

\* C11 as stated: the shell flush writes links for the first precedence only,
\* and a placeholder for every other registered precedence
C11_AsStated ==
  [][ ShellFlush =>
        /\ \A m \in DOMAIN lastOut' :
             lastOut'[m].t = "link:stylesheet" /\ lastOut'[m].q = "precedences"
               => lastOut'[m].x = resources.firstPrecedence
        /\ \A p \in Range(resources.precedenceOrder) \ {resources.firstPrecedence} :
             \E m \in DOMAIN lastOut' : IsPlaceholderOf(lastOut'[m], p) ]_vars

\* the ordered flush sets of the registry
FlushQueues ==
  {"bases", "preconnects", "fontPreloads", "usedStylePreloads", "scripts",
   "usedScriptPreloads", "explicitStylePreloads", "explicitScriptPreloads",
   "headResources"}

\* the URLs of the chunks that a flush wrote from the queue qname, in output order
Emitted(out, qname) ==
  LET from == SelectSeq(out, LAMBDA c : c.q = qname)
  IN [i \in 1..Len(from) |-> from[i].h]

RECURSIVE IsSubseq(_, _)
IsSubseq(a, b) ==
  IF a = <<>> THEN TRUE
  ELSE IF b = <<>> THEN FALSE
  ELSE IF Head(a) = Head(b) THEN IsSubseq(Tail(a), Tail(b))
  ELSE IsSubseq(a, Tail(b))

\* a flush call that reached the queues has just returned
FlushStep == driver'.writes = driver.writes + 1 /\ Drained'

\* C12: when a flush call returns, every ordered flush set of the registry is
\* empty, and after a preamble write charsetChunks and hoistableChunks are
\* empty too; what the call wrote from a queue is the queue's entries in
\* insertion order: all of fontPreloads, all of scripts (followed by the external
\* runtime if the call registered it), the charset and hoistable chunks as
\* buffered, and of a preload queue the entries not flushed before.
C12_QueuesConsumed ==
  [][ FlushStep =>
        /\ \A q \in FlushQueues : resources'[q] = <<>>
        /\ lastOp'.op \in {"writeEarlyPreamble", "writePreamble"} =>
             /\ responseState'.charsetChunks = <<>>
             /\ responseState'.hoistableChunks = <<>>
             /\ SelectSeq(lastOut', LAMBDA c : c.q = "charsetChunks")
                  = responseState.charsetChunks
             /\ SelectSeq(lastOut', LAMBDA c : c.q = "hoistableChunks")
                  = responseState.hoistableChunks
        /\ Emitted(lastOut', "fontPreloads") = resources.fontPreloads
        /\ Emitted(lastOut', "scripts")
             \in {resources.scripts, SetAdd(resources.scripts, RuntimeSrc)}
        /\ \A q \in FlushQueues \ {"fontPreloads", "scripts"} :
             IsSubseq(Emitted(lastOut', q), resources[q]) ]_vars

\* a flush wrote two entries of one queue, and the queues are empty
C12_Witness ==
  /\ Drained
  /\ \A q \in FlushQueues : resources[q] = <<>>
  /\ \E q \in FlushQueues : Len(Emitted(lastOut, q)) = 2

\* the style or script resource r registered under url has the preload resource
\* of preloadsMap under url as its hint
HintIsPreload(res, url, r) ==
  url \in DOMAIN res.preloadsMap /\ r.hint = res.preloadsMap[url].gen

\* C13: every style resource of stylesMap and every script resource of
\* scriptsMap has as its hint the preload resource that preloadsMap holds under
\* the same URL, and for no URL was a second preload, style or script resource
\* ever created.
C13_HintPerUrl ==
  /\ \A h \in DOMAIN resources.stylesMap :
       HintIsPreload(resources, h, resources.stylesMap[h]) /\ resources.stylesMap[h].gen = 0
  /\ \A h \in DOMAIN resources.scriptsMap :
       HintIsPreload(resources, h, resources.scriptsMap[h]) /\ resources.scriptsMap[h].gen = 0
  /\ \A h \in DOMAIN resources.preloadsMap : resources.preloadsMap[h].gen = 0

\* a stylesheet registered for a URL that already had a font preload: its hint is
\* that preload
C13_Witness ==
  /\ \E h \in DOMAIN resources.stylesMap :
       /\ resources.preloadsMap[h].as = "font"
       /\ HintIsPreload(resources, h, resources.stylesMap[h])
       /\ lastOp.href = h /\ lastOp.x \in Precedences
       /\ driver.regs = 2 /\ Len(driver.styles) = 1

\* the script u and its hint, a script preload, are registered and neither is flushed
PreloadedAndPreinitialized(u) ==
  /\ u \in DOMAIN resources.scriptsMap /\ ~resources.scriptsMap[u].flushed
  /\ resources.preloadsMap[u].as = "script" /\ ~resources.preloadsMap[u].flushed

\* C14: after preload(a, script) and preinit(a, script) the flush that follows
\* writes exactly one <script> for a and no preload link (the script marks its
\* hint flushed before the preload queues are read), and marks the script and
\* the hint flushed; once the script is flushed no later flush writes a tag for a,
\* and over the response a has at most one preload link and one <script>.
C14_PreloadThenPreinit ==
  [][ /\ Count(destination', LAMBDA c : IsScriptTag(c, "a")) <= 1
      /\ Count(destination', LAMBDA c : IsPreloadTag(c, "a")) <= 1
      /\ (FlushStep /\ PreloadedAndPreinitialized("a")) =>
           /\ Count(lastOut', LAMBDA c : IsScriptTag(c, "a")) = 1
           /\ Count(lastOut', LAMBDA c : IsPreloadTag(c, "a")) = 0
           /\ resources'.scriptsMap["a"].flushed
           /\ resources'.preloadsMap["a"].flushed
      /\ (FlushStep /\ "a" \in DOMAIN resources.scriptsMap
                    /\ resources.scriptsMap["a"].flushed) =>
           Count(lastOut', LAMBDA c : IsResourceTag(c, "a")) = 0 ]_vars

\* both registered before the only flush so far, which wrote the script
C14_Witness ==
  /\ Drained /\ driver.writes = 1
  /\ driver.repeat.href = "a" /\ ~driver.repeat.fresh
  /\ "a" \in DOMAIN resources.scriptsMap
  /\ Count(lastOut, LAMBDA c : IsScriptTag(c, "a")) = 1
  /\ resources.preloadsMap["a"].flushed

\* C14 as stated: that flush writes exactly one preload link and one <script>
C14_AsStated ==
  [][ (FlushStep /\ PreloadedAndPreinitialized("a")) =>
        /\ Count(lastOut', LAMBDA c : IsScriptTag(c, "a")) = 1
        /\ Count(lastOut', LAMBDA c : IsPreloadTag(c, "a")) = 1
        /\ resources'.preloadsMap["a"].flushed ]_vars

\* a step that renders a stylesheet <link> with a precedence for an href that
\* already has a style resource
RendersKnownStylesheet ==
  /\ driver'.regs = driver.regs + 1
  /\ lastOp'.op = "render" /\ lastOp'.type = "link:stylesheet"
  /\ lastOp'.href \in DOMAIN resources.stylesMap

\* C15: rendering a stylesheet <link> for an href that already has a style
\* resource leaves stylesMap and preloadsMap (and so the resource's precedence)
\* unchanged; the render target is unchanged too, except that after text a text
\* separator is pushed, and that inside <noscript> the link is written in place
\* and no queue of the registry or of a boundary changes
C15_KnownStylesheet ==
  [][RendersKnownStylesheet =>
       /\ resources'.stylesMap = resources.stylesMap
       /\ resources'.preloadsMap = resources.preloadsMap
       /\ segment' = IF task.formatContext.noscriptTagInScope
                     THEN Append(segment, Chunk("link:stylesheet", lastOp'.href, "", "inplace"))
                     ELSE IF lastPushedText(segment)
                     THEN Append(segment, textSeparator)
                     ELSE segment
       /\ task.formatContext.noscriptTagInScope =>
            /\ [resources' EXCEPT !.boundaryResources = resources.boundaryResources]
                 = resources
            /\ boundaries' = boundaries]_vars

\* a boundary's task has just rendered, after text, a stylesheet that the root
\* had registered before: the text separator is the last chunk of the segment
C15_Witness ==
  /\ lastOp.op = "render" /\ lastOp.type = "link:stylesheet"
  /\ lastOp.b \in Boundaries
  /\ lastOp.href \in DOMAIN resources.stylesMap \ driver.scoped
  /\ lastOp.href \in Range(boundaries[lastOp.b])
  /\ segment # <<>> /\ segment[Len(segment)] = textSeparator

\* C15 as stated: nothing is ever pushed to the render target
C15_AsStated ==
  [][RendersKnownStylesheet =>
       /\ resources'.stylesMap = resources.stylesMap
       /\ resources'.preloadsMap = resources.preloadsMap
       /\ segment' = segment]_vars

\* a step that creates the style or the script resource of a URL that has a
\* preload resource
AdoptsStyle ==
  /\ lastOp'.op = "preinit" /\ lastOp'.type = "style"
  /\ lastOp'.href \in DOMAIN resources.preloadsMap \ DOMAIN resources.stylesMap
  /\ lastOp'.href \in DOMAIN resources'.stylesMap

AdoptsScript ==
  /\ lastOp'.op = "preinit" /\ lastOp'.type = "script"
  /\ lastOp'.href \in DOMAIN resources.preloadsMap \ DOMAIN resources.scriptsMap
  /\ lastOp'.href \in DOMAIN resources'.scriptsMap

\* crossOrigin of the new resource is the one it gives, or the preload's if it
\* gives none; the preload keeps its own
Adopted(map) ==
  LET h == lastOp'.href
      hint == resources.preloadsMap[h]
  IN /\ resources'.preloadsMap[h] = hint
     /\ map[h].hint = hint.gen
     /\ map[h].props.crossOrigin =
          IF IsNullish(lastOp'.crossOrigin) THEN hint.props.crossOrigin
          ELSE lastOp'.crossOrigin

\* C16: a style or script resource registered for a URL that has a preload
\* takes the preload's crossOrigin when it gives none itself, and keeps its
\* own otherwise; the two agree whenever the resource gives no crossOrigin
C16_Adopt ==
  [][/\ AdoptsStyle => Adopted(resources'.stylesMap)
     /\ AdoptsScript => Adopted(resources'.scriptsMap)]_vars

\* the stylesheet a, preinitialized without crossOrigin after a preload with
\* crossOrigin, carries the crossOrigin of its preload
C16_Witness ==
  /\ lastOp.op = "preinit" /\ lastOp.type = "style" /\ lastOp.crossOrigin = Undefined
  /\ driver.repeat.n = 1 /\ ~driver.repeat.fresh
  /\ lastOp.href \in DOMAIN resources.stylesMap
  /\ resources.stylesMap[lastOp.href].props.crossOrigin \in {"anonymous", "use-credentials"}
  /\ resources.stylesMap[lastOp.href].props = resources.preloadsMap[lastOp.href].props

\* C16 as stated: a resource and its preload never carry different crossOrigin
\* values
C16_AsStated ==
  /\ \A h \in DOMAIN resources.stylesMap :
       resources.stylesMap[h].props.crossOrigin = resources.preloadsMap[h].props.crossOrigin
  /\ \A h \in DOMAIN resources.scriptsMap :
       resources.scriptsMap[h].props.crossOrigin = resources.preloadsMap[h].props.crossOrigin

\* a step that renders <script async src=u> with an onLoad or onError handler
\* where scripts are resources, that is outside <noscript>
RendersHandledScript ==
  /\ driver'.regs = driver.regs + 1
  /\ lastOp'.op = "render" /\ lastOp'.type = "script:handlers"
  /\ ~task.formatContext.noscriptTagInScope

Members(set) == Range(set)

IsSet(set) == Cardinality(Range(set)) = Len(set)

\* the stylesheets of boundary b that have precedence p
OfPrecedence(b, p) == {h \in Range(boundaries[b]) : resources.stylesMap[h].precedence = p}

\* hoistResources(source) moved every entry of source into the set of the
\* boundary that is current, and emptied source
HoistedToBoundary(source, target) ==
  /\ boundaries'[source] = <<>>
  /\ Members(boundaries'[target]) = Members(boundaries[target]) \cup Members(boundaries[source])
  /\ IsSet(boundaries'[target])
  /\ \A b \in DOMAIN boundaries \ {source, target} : boundaries'[b] = boundaries[b]
  /\ resources'.precedences = resources.precedences

\* hoistResourcesToRoot(source) moved every entry of source into the set of its
\* precedence, and emptied source
HoistedToRoot(source) ==
  /\ boundaries'[source] = <<>>
  /\ \A p \in DOMAIN resources.precedences :
       /\ Members(resources'.precedences[p])
            = Members(resources.precedences[p]) \cup OfPrecedence(source, p)
       /\ IsSet(resources'.precedences[p])
  /\ DOMAIN resources'.precedences = DOMAIN resources.precedences
  /\ \A b \in DOMAIN boundaries \ {source} : boundaries'[b] = boundaries[b]

DispatchedOutside ==
  /\ lastOp'.op \in {"preload", "preinit"}
  /\ currentResources = Null

\* C19: preload and preinit called while no Resources is current return
\* without creating a resource or changing a map or a queue of the registry
C19_NoCurrentResources ==
  [][DispatchedOutside =>
       /\ resources' = resources
       /\ boundaries' = boundaries
       /\ responseState' = responseState
       /\ destination' = destination
       /\ currentResources' = Null]_vars

\* after a bracket in which something was registered was closed, a URL that is
\* not registered was preloaded or preinitialized, and still is not registered
C19_Witness ==
  /\ lastOp.op \in {"preload", "preinit"}
  /\ currentResources = Null
  /\ Unregistered(lastOp.href)
  /\ DOMAIN resources.preloadsMap # {}

\* the helper functions of the instruction set
Helpers == {"$RS", "$RC", "$RK", "$RX", "$RR"}

IsFunction(c, name) == c.t = "function" /\ c.x = name

IsInvocation(c) == c.t \in {"completeSegment", "completeBoundary", "clientRender"}

\* the helpers that an invocation starting with script1 calls
Calls(script1) ==
  CASE script1 = "$RR($RC" -> {"$RR", "$RC"}
    [] script1 = "$RR($RK" -> {"$RR", "$RK"}
    [] OTHER -> {script1} \cap Helpers

\* C20: in script format the body of each helper function is written at most
\* once, and every invocation written comes after the body of every helper
\* it calls, whatever the order of the instructions: the body is written with
\* the first instruction that uses the helper, in the same script, and with
\* no later one
C20_HelpersOnce ==
  responseState.streamingFormat = ScriptStreamingFormat =>
    /\ \A name \in Helpers : Count(destination, LAMBDA c : IsFunction(c, name)) <= 1
    /\ \A i \in DOMAIN destination :
         IsInvocation(destination[i]) =>
           \A name \in Calls(destination[i].x) :
             \E j \in 1..(i - 1) : IsFunction(destination[j], name)
    /\ \A j \in DOMAIN destination, name \in Helpers :
         IsFunction(destination[j], name) =>
           \E i \in (j + 1)..Len(destination) :
             /\ IsInvocation(destination[i]) /\ name \in Calls(destination[i].x)
             /\ \A k \in (j + 1)..(i - 1) : destination[k].t = "function"

\* a boundary without style dependencies completed first and one with style
\* dependencies after it: $RC was written with the first, $RR with the second
C20_Witness ==
  /\ responseState.streamingFormat = ScriptStreamingFormat
  /\ \E i, j, k, l \in DOMAIN destination :
       /\ i < j /\ j < k /\ k < l
       /\ IsFunction(destination[i], "$RC")
       /\ destination[j].t = "completeBoundary" /\ destination[j].x = "$RC"
       /\ IsFunction(destination[k], "$RR")
       /\ destination[l].t = "completeBoundary" /\ destination[l].x = "$RR($RC"

\* the call that has just returned, or thrown
Wrote(op) == lastOp'.op = op
Returned(op) == lastOp'.op = op /\ lastOp'.x # "throw"

\* the bootstrap chunks an errored container is given
ErroredBootstrap(rs) ==
  IF rs.fallbackBootstrapChunks # Undefined
  THEN rs.fallbackBootstrapChunks ELSE rs.bootstrapChunks

IsClientRender(c, b, format) ==
  /\ c.t = "clientRender" /\ c.h = b
  /\ c.x = (IF format = ScriptStreamingFormat THEN "$RX" ELSE "x")

\* C21: writeClientRenderBoundaryInstruction for a boundary whose ID is not the
\* container's writes exactly one client-render instruction, $RX(...) in
\* script format and <template data-ri="x"> in data format, that names the
\* boundary; for the container's ID it writes none, only the fallback bootstrap
\* chunks, or the bootstrap chunks when there is no fallback.  Either way no
\* completion instruction is written for the boundary.
C21_ClientRender ==
  [][Returned("writeClientRenderBoundaryInstruction") =>
       LET b == lastOp'.type
           container == b = responseState.containerBoundaryID
       IN /\ Count(lastOut', LAMBDA c : c.t = "completeBoundary") = 0
          /\ Count(destination', LAMBDA c : c.t = "completeBoundary" /\ c.h = b) = 0
          /\ Count(lastOut', LAMBDA c : c.t = "clientRender")
               = (IF container THEN 0 ELSE 1)
          /\ ~container =>
               Count(lastOut',
                     LAMBDA c : IsClientRender(c, b, responseState.streamingFormat)) = 1
          /\ container => lastOut' = ErroredBootstrap(responseState)
          /\ destination' = destination \o lastOut']_vars

\* the container errored and was given the fallback bootstrap script, after a
\* boundary errored and was given its instruction
C21_Witness ==
  /\ lastOp.op = "writeClientRenderBoundaryInstruction"
  /\ lastOp.type = ContainerID /\ responseState.containerBoundaryID = ContainerID
  /\ lastOut = <<fallbackBootstrapScript>>
  /\ \E i \in DOMAIN destination :
       IsClientRender(destination[i], "B:0", responseState.streamingFormat)

\* C21 as stated: whatever the boundary ID, exactly one client-render
\* instruction that names it is written
C21_AsStated ==
  [][Returned("writeClientRenderBoundaryInstruction") =>
       Count(lastOut',
             LAMBDA c : IsClientRender(c, lastOp'.type, responseState.streamingFormat))
         = 1]_vars

\* the stylesheets of a boundary's set that are not in the shell
NotInShell(res, boundaryResources) ==
  {h \in Range(boundaryResources) : ~res.stylesMap[h].inShell}

IsDependency(c) == c.t \in {"dependency", "dependency:href"}

WithStyles(c) ==
  c.t = "completeBoundary" /\ c.x \in {"$RR($RC", "$RR($RK", "rb", "rc"}

\* C22: writeCompletedBoundaryInstruction writes the with-styles form exactly
\* when the boundary's set holds a stylesheet that is not in the shell.  The
\* dependency array then lists exactly the stylesheets of the set that are not
\* in the shell, each once: the href alone of one that was flushed already,
\* the href and precedence of one that was not, which is marked flushed
\* together with its hint; the stylesheets in the shell are left as they were.
C22_StyleDependencies ==
  [][Returned("writeCompletedBoundaryInstruction") =>
       LET b == lastOp'.type
           sm == resources.stylesMap
           listed == NotInShell(resources, boundaries[b])
       IN /\ Count(lastOut', LAMBDA c : c.t = "completeBoundary" /\ c.h = b) = 1
          /\ Count(lastOut', WithStyles) = (IF listed # {} THEN 1 ELSE 0)
          /\ Count(lastOut', IsDependency) = Cardinality(listed)
          /\ \A h \in listed :
               /\ Count(lastOut',
                        LAMBDA c : c = (IF sm[h].flushed THEN StyleDependencyHrefOnly(h)
                                        ELSE StyleDependency(h, sm[h].precedence))) = 1
               /\ resources'.stylesMap[h] = [sm[h] EXCEPT !.flushed = TRUE]
               /\ ~sm[h].flushed /\ h \in DOMAIN resources.preloadsMap
                  /\ resources.preloadsMap[h].gen = sm[h].hint
                    => resources'.preloadsMap[h].flushed
          /\ \A h \in DOMAIN sm \ listed : resources'.stylesMap[h] = sm[h]]_vars

\* a boundary completed that depends on a stylesheet in the shell, on one that
\* an earlier instruction flushed and on one that nothing flushed
C22_Witness ==
  /\ lastOp.op = "writeCompletedBoundaryInstruction" /\ lastOp.type = "B:1"
  /\ Range(boundaries["B:1"]) = {"a", "b"}
  /\ \E i, j \in DOMAIN lastOut :
       /\ lastOut[i] = StyleDependencyHrefOnly("a")
       /\ lastOut[j] = StyleDependency("b", "p1")
  /\ resources.stylesMap["b"].flushed

\* a boundary completed whose set holds a stylesheet of the shell next to one
\* that is listed
C22_WitnessElided ==
  /\ lastOp.op = "writeCompletedBoundaryInstruction"
  /\ \E h \in Range(boundaries[lastOp.type]) : resources.stylesMap[h].inShell
  /\ Count(lastOut, IsDependency) = 1

IsBootstrap(c) == c.t \in {"bootstrap", "template", "/template"}

\* how the instruction written for boundary b starts
CompletionForm(scriptFormat, styles, container) ==
  IF scriptFormat
  THEN IF styles THEN (IF container THEN "$RR($RK" ELSE "$RR($RC")
       ELSE (IF container THEN "$RK" ELSE "$RC")
  ELSE IF styles THEN (IF container THEN "rc" ELSE "rb")
       ELSE (IF container THEN "c" ELSE "b")

\* where the instruction is in what a call wrote
InstructionAt(out) == CHOOSE k \in DOMAIN out : out[k].t = "completeBoundary"

\* C23: writeCompletedBoundaryInstruction for the containerBoundaryID writes
\* the container form of the instruction ($RK, $RR($RK with style
\* dependencies; data-ri c and rc in data format) and the bootstrap chunks
\* with it.  In script format without style dependencies they directly follow
\* the instruction; in script format with style dependencies, and in data
\* format always, they are wrapped in a <template id="bs:..."> that is written
\* before the instruction, and nothing is written when there are no bootstrap
\* chunks.  For any other boundary ID the boundary form is written and no
\* bootstrap chunk.
C23_ContainerBootstrap ==
  [][Returned("writeCompletedBoundaryInstruction") =>
       LET b == lastOp'.type
           out == lastOut'
           bs == responseState.bootstrapChunks
           scriptFormat == responseState.streamingFormat = ScriptStreamingFormat
           styles == NotInShell(resources, boundaries[b]) # {}
           container == b = responseState.containerBoundaryID
           k == InstructionAt(out)
       IN /\ Count(out, LAMBDA c : c.t = "completeBoundary") = 1
          /\ out[k].h = b /\ out[k].x = CompletionForm(scriptFormat, styles, container)
          /\ ~container => Count(out, IsBootstrap) = 0
          /\ container /\ scriptFormat /\ ~styles =>
               /\ SubSeq(out, k + 1, Len(out)) = bs
               /\ Count(out, IsBootstrap) = Len(bs)
          /\ container /\ (styles \/ ~scriptFormat) =>
               /\ Count(out, IsBootstrap) = (IF bs = <<>> THEN 0 ELSE Len(bs) + 2)
               /\ bs # <<>> =>
                    /\ SubSeq(out, 1, Len(bs) + 2) = bootstrapContainer(bs)
                    /\ out[1].t = "template" /\ out[Len(bs) + 2].t = "/template"
                    /\ k > Len(bs) + 2]_vars

\* the container completed with a style dependency in script format: the
\* bootstrap script is in its <template>, before $RR($RK
C23_Witness ==
  /\ lastOp.op = "writeCompletedBoundaryInstruction" /\ lastOp.type = ContainerID
  /\ responseState.containerBoundaryID = ContainerID
  /\ Len(lastOut) > 3
  /\ lastOut[1].t = "template" /\ lastOut[2] = bootstrapScript
  /\ lastOut[3].t = "/template"
  /\ \E i \in DOMAIN lastOut : lastOut[i].t = "completeBoundary" /\ lastOut[i].x = "$RR($RK"

\* C23 as stated: without style dependencies the bootstrap chunks directly
\* follow the container's instruction, unwrapped, whatever the format
C23_AsStated ==
  [][Returned("writeCompletedBoundaryInstruction")
     /\ lastOp'.type = responseState.containerBoundaryID
     /\ NotInShell(resources, boundaries[lastOp'.type]) = {} =>
       /\ SubSeq(lastOut', InstructionAt(lastOut') + 1, Len(lastOut'))
            = responseState.bootstrapChunks
       /\ Count(lastOut', IsBootstrap) = Len(responseState.bootstrapChunks)]_vars

BoundaryWriters ==
  {"writeStartPendingSuspenseBoundary", "writeCompletedBoundaryInstruction",
   "writeClientRenderBoundaryInstruction"}

\* C24: called with a null boundary ID, writeStartPendingSuspenseBoundary,
\* writeCompletedBoundaryInstruction and writeClientRenderBoundaryInstruction
\* throw, whatever the response was created with, before they write a chunk
\* to the destination and before they change the ResponseState.
C24_NullBoundaryThrows ==
  [][lastOp'.op \in BoundaryWriters /\ lastOp'.type = Null =>
       /\ lastOp'.x = "throw"
       /\ destination' = destination
       /\ responseState' = responseState]_vars

\* the part of C24 that holds of writeCompletedBoundaryInstruction: it throws
\* before it writes or changes anything
C24_CompletedThrowsFirst ==
  [][lastOp'.op = "writeCompletedBoundaryInstruction" /\ lastOp'.type = Null =>
       /\ lastOp'.x = "throw"
       /\ destination' = destination
       /\ responseState' = responseState
       /\ resources' = resources]_vars

\* writeClientRenderBoundaryInstruction returned for a null boundary ID, in a
\* response without a container
C24_ReturnedForNull ==
  /\ lastOp.op = "writeClientRenderBoundaryInstruction" /\ lastOp.type = Null
  /\ lastOp.x # "throw"
  /\ responseState.containerBoundaryID = Null

\* a writer threw after it wrote the start of what it writes
C24_ThrewAfterWriting ==
  /\ lastOp.op \in BoundaryWriters /\ lastOp.x = "throw"
  /\ lastOut # <<>>

\* the last call wrote to a sink whose answers are recorded
Answered == "returned" \in DOMAIN lastOp

C25_LostRefusal ==
  /\ Answered /\ lastOp.op = "writeStartClientRenderedSuspenseBoundary"
  /\ lastOp.refused # {} /\ lastOp.returned

C26_VoidEndTag ==
  [][lastOp'.op = "pushEndInstance" /\ lastOp'.type \in VoidTags =>
       IF lastOp'.type = "menuitem"
       THEN /\ Len(segment') = Len(segment) + 1
            /\ segment'[Len(segment')] = endTag("menuitem", "nested", "inplace")
       ELSE segment' = segment]_vars

\* void elements were ended at the root and inside <noscript>, and nothing
\* was pushed for them
C26_Witness ==
  /\ lastOp.op = "pushEndInstance" /\ lastOp.type = "br"
  /\ task.formatContext.noscriptTagInScope
  /\ Len(segment) = 2 /\ segment[2].t = "<br/>"

\* C26 as stated: nothing is pushed for any void element, menuitem included
C26_AsStated ==
  [][lastOp'.op = "pushEndInstance" /\ lastOp'.type \in VoidTags =>
       segment' = segment]_vars

\* a void element was pushed with the props that lastOp records
PushesVoid == lastOp'.op = "pushStartInstance" /\ "content" \in DOMAIN lastOp'
                /\ lastOp'.type \in VoidTags

\* C27: pushStartInstance of a void element returns no children, and throws
\* in that very call when the element has children or dangerouslySetInnerHTML
\* that is not null, a <link> that becomes a preload or a stylesheet resource
\* included.
C27_VoidContentThrows ==
  [][PushesVoid =>
       /\ lastOp'.children = Null
       /\ lastOp'.content => lastOp'.x = "throw"]_vars

\* the part of C27 that holds: no children are returned; every void element
\* but <link> throws in the push, and so does a <link> that pushLinkImpl
\* pushes, in place or into hoistableChunks
C27_PushedInPlaceThrows ==
  [][PushesVoid =>
       /\ lastOp'.children = Null
       /\ lastOp'.type # "link" => (lastOp'.x = "throw" <=> lastOp'.content)
       /\ lastOp'.type = "link" /\ lastOp'.content /\ lastOp'.x # "throw" =>
            /\ segment' \in {segment, Append(segment, textSeparator)}
            /\ responseState'.hoistableChunks = responseState.hoistableChunks]_vars

\* a <link rel="stylesheet" precedence> with children became a resource
\* without a throw
C27_ResourceWithChildren ==
  /\ lastOp.op = "pushStartInstance" /\ lastOp.type = "link"
  /\ "content" \in DOMAIN lastOp /\ lastOp.content /\ lastOp.x # "throw"
  /\ lastOp.href \in DOMAIN resources.stylesMap
  /\ HasContent(resources.stylesMap[lastOp.href].props)

\* the flush of the shell threw on the resource of such a <link>
C27_ThrownAtFlush ==
  /\ lastOp.op = "writePreamble" /\ lastOp.x = "throw"
  /\ \E h \in DOMAIN resources.stylesMap : HasContent(resources.stylesMap[h].props)

(***************************************************************************)
(* The leading newline of <textarea>, <pre> and <listing>.                 *)
(***************************************************************************)
PushesContent ==
  /\ lastOp'.op = "pushStartInstance" /\ "props" \in DOMAIN lastOp'
  /\ lastOp'.type \in {"textarea", "pre", "listing"}
  /\ lastOp'.x # "throw"

\* the content the element is resolved from: value, defaultValue or children
\* of a <textarea>, dangerouslySetInnerHTML.__html or children of the others
ResolvedContent(type, props) ==
  IF type = "textarea"
  THEN IF Prop(props, "value") # Null THEN Prop(props, "value")
       ELSE IF Prop(props, "defaultValue") # Null THEN Prop(props, "defaultValue")
       ELSE Prop(props, "children")
  ELSE IF Prop(props, "dangerouslySetInnerHTML") # Null
       THEN Prop(props, "dangerouslySetInnerHTML")
       ELSE Prop(props, "children")

\* the leading newlines the step pushed
NewlinesPushed ==
  Cardinality({i \in Len(segment) + 1 .. Len(segment') : segment'[i] = leadingNewline})

\* C28 as stated: a <textarea>, <pre> or <listing> whose resolved content
\* starts with a newline gets exactly one extra leading newline, and one whose
\* content does not start with a newline gets none
C28_LeadingNewline ==
  [][PushesContent /\ ResolvedContent(lastOp'.type, lastOp'.props) # Null =>
       NewlinesPushed =
         IF Chars(Stringify(ResolvedContent(lastOp'.type, lastOp'.props)))[1] = LF
         THEN 1 ELSE 0]_vars

\* what holds: a content that is a string gets one leading newline exactly when
\* it starts with a newline, and so does any children of a <textarea>
C28_StringContent ==
  [][/\ PushesContent
     /\ ResolvedContent(lastOp'.type, lastOp'.props) # Null
     /\ \/ TypeOf(ResolvedContent(lastOp'.type, lastOp'.props)) = "string"
        \/ /\ lastOp'.type = "textarea"
           /\ ResolvedContent(lastOp'.type, lastOp'.props)
                = Prop(lastOp'.props, "children")
     => NewlinesPushed =
          IF Chars(Stringify(ResolvedContent(lastOp'.type, lastOp'.props)))[1] = LF
          THEN 1 ELSE 0]_vars

\* a <pre> was pushed whose children are an array that starts with a newline,
\* and no leading newline is in the segment
C28_ArrayWithoutNewline ==
  /\ lastOp.op = "pushStartInstance" /\ "props" \in DOMAIN lastOp
  /\ lastOp.type = "pre" /\ lastOp.x # "throw"
  /\ lastOp.props.children = ArrayOf("\na")
  /\ \A i \in 1 .. Len(segment) : segment[i] # leadingNewline

(***************************************************************************)
(* <title>, <meta>, <link> and <script> inside <noscript>.                 *)
(***************************************************************************)
RendersInScope == lastOp'.op = "render" /\ "noscriptTagInScope" \in DOMAIN lastOp'

\* the tag of the element, written where the element is
InPlace(type, props) ==
  CASE type = "title" -> Chunk("title", "", "", "inplace")
    [] type = "meta" ->
         Chunk(IF props.charSet THEN "meta:charset" ELSE "meta", "", "", "inplace")
    [] type = "link" -> LinkChunk(props, "inplace")
    [] type = "script" -> ScriptTag(props.src, "inplace")

\* the step put a tag aside or changed the registry
Hoists ==
  \/ responseState'.hoistableChunks # responseState.hoistableChunks
  \/ responseState'.charsetChunks # responseState.charsetChunks
  \/ resources' # resources
  \/ boundaries' # boundaries

\* C29: inside <noscript>, pushStartInstance of a <title>, <meta>, <link> or
\* <script> pushes the tag in place into the target and leaves the registry's
\* maps and queues, charsetChunks and hoistableChunks as they were; a tag is
\* hoisted or registered only outside <noscript>
C29_NoscriptInPlace ==
  [][RendersInScope =>
       /\ lastOp'.noscriptTagInScope =>
            /\ segment' = Append(segment, InPlace(lastOp'.type, lastOp'.props))
            /\ resources' = resources
            /\ boundaries' = boundaries
            /\ responseState' = responseState
       /\ Hoists => ~lastOp'.noscriptTagInScope]_vars

\* a <meta charset> was rendered inside <noscript> after a stylesheet with a
\* precedence was: both are in the segment, and nothing was put aside
C29_Witness ==
  /\ lastOp.op = "render" /\ "noscriptTagInScope" \in DOMAIN lastOp
  /\ lastOp.noscriptTagInScope /\ lastOp.type = "meta" /\ lastOp.props.charSet
  /\ Len(segment) = 3
  /\ segment[2] = LinkChunk(LinkProps("stylesheet", "a", "", "p1", FALSE, Null), "inplace")
  /\ segment[3] = Chunk("meta:charset", "", "", "inplace")
  /\ responseState.charsetChunks = <<>>
  /\ responseState.hoistableChunks = <<>>
  /\ resources.stylesMap = EmptyMap

\* a <meta> rendered outside <noscript> was put into hoistableChunks
C29_WitnessHoisted ==
  /\ lastOp.op = "render" /\ "noscriptTagInScope" \in DOMAIN lastOp
  /\ ~lastOp.noscriptTagInScope /\ lastOp.type = "meta"
  /\ Len(responseState.hoistableChunks) = 1
  /\ segment = <<>>

(***************************************************************************)
(* The escapers of the instruction scripts.                                *)
(***************************************************************************)
Escaped == lastOp.op \in {"escapeJSStringsForInstructionScripts",
                          "escapeJSObjectForInstructionScripts"}

HexDigits == {"0", "2", "3", "6", "8", "9", "c", "e"}

\* the character that the escape \uXXXX stands for
Unescaped(hex) ==
  CHOOSE c \in {"<", ">", "&", "LS", "PS"} : UnicodeEscape(c) = <<"\\", "u">> \o hex

\* JSON.parse of the characters between the quotes of a string literal, or
\* <<"SyntaxError">> when they are not the body of one
RECURSIVE JSONParseBody(_)
JSONParseBody(body) ==
  LET Rest(n, c) ==
        LET rest == JSONParseBody(SubSeq(body, n + 1, Len(body)))
        IN IF rest = <<"SyntaxError">> THEN rest ELSE <<c>> \o rest
  IN IF body = <<>> THEN <<>>
     ELSE IF body[1] \in {"\"", LF} THEN <<"SyntaxError">>
     ELSE IF body[1] # "\\" THEN Rest(1, body[1])
     ELSE IF Len(body) < 2 THEN <<"SyntaxError">>
     ELSE IF body[2] \in {"\"", "\\"} THEN Rest(2, body[2])
     ELSE IF body[2] = "n" THEN Rest(2, LF)
     ELSE IF /\ body[2] = "u" /\ Len(body) >= 6
             /\ \E c \in {"<", ">", "&", "LS", "PS"} : UnicodeEscape(c) = SubSeq(body, 1, 6)
     THEN Rest(6, Unescaped(SubSeq(body, 3, 6)))
     ELSE <<"SyntaxError">>

JSONParse(literal) ==
  IF Len(literal) < 2 \/ literal[1] # "\"" \/ literal[Len(literal)] # "\""
  THEN <<"SyntaxError">>
  ELSE JSONParseBody(SubSeq(literal, 2, Len(literal) - 1))

\* C30: what escapeJSStringsForInstructionScripts and
\* escapeJSObjectForInstructionScripts return is a JSON string literal of the
\* input that holds no <, no U+2028 and no U+2029, and no raw line feed
C30_Escaped ==
  Escaped =>
    /\ \A i \in 1 .. Len(lastOp.output) : lastOp.output[i] \notin {"<", "LS", "PS", LF}
    /\ JSONParse(lastOp.output) = lastOp.input

\* </script>-like input: a string of <, U+2028 and U+2029 was escaped into
\* three \u escapes between quotes
C30_Witness ==
  /\ lastOp.op = "escapeJSStringsForInstructionScripts"
  /\ lastOp.input = <<"<", "LS", "PS">>
  /\ lastOp.output = <<"\"", "\\", "u", "0", "0", "3", "c", "\\", "u", "2", "0", "2", "8",
                       "\\", "u", "2", "0", "2", "9", "\"">>

(***************************************************************************)
(* The streaming format of a response.                                     *)
(***************************************************************************)
IsInstruction(c) == c.t \in {"completeSegment", "completeBoundary", "clientRender"}

\* the data-ri of the <template> of an instruction
DataRi == {"s", "c", "rc", "b", "rb", "x"}

SentFunctions(rs) ==
  {rs.sentCompleteSegmentFunction, rs.sentCompleteBoundaryFunction,
   rs.sentCompleteContainerFunction, rs.sentClientRenderFunction,
   rs.sentStyleInsertionFunction}

\* C31: the streaming format of a response never changes; in the data format
\* every instruction written is a <template data-ri>, no inline script and no
\* function body is written, and no sent*Function flag becomes true
C31_DataFormat ==
  [][/\ responseState'.streamingFormat = responseState.streamingFormat
     /\ responseState'.streamingFormat = DataStreamingFormat =>
          /\ \A i \in DOMAIN destination' :
               /\ IsInstruction(destination'[i]) => destination'[i].x \in DataRi
               /\ destination'[i].t # "function"
          /\ SentFunctions(responseState') = {FALSE}]_vars

\* a response in the data format wrote the instruction of a segment, of a
\* boundary with a stylesheet and of a boundary that errored
C31_Witness ==
  /\ responseState.streamingFormat = DataStreamingFormat
  /\ \E i, j, k \in DOMAIN destination :
       /\ destination[i] = Instruction("completeSegment", "S:1", "s")
       /\ destination[j] = Instruction("completeBoundary", "B:0", "rb")
       /\ destination[k] = Instruction("clientRender", "B:1", "x")
  /\ SentFunctions(responseState) = {FALSE}

(***************************************************************************)
(* The document a client obtains from the stream: the parser appends each   *)
(* node where the stream is, a hidden container holds its nodes aside, and  *)
(* the instructions move them into place.                                  *)
(***************************************************************************)
SegmentIDs == {"S:0"} \cup {AsyncSegments[i] : i \in DOMAIN AsyncSegments}

EmptyDocument == [main |-> <<>>, hidden |-> [id \in SegmentIDs |-> <<>>], open |-> ""]

\* nodes with every node that is in from replaced by the nodes to
Substitute(nodes, from, to) ==
  Flatten([i \in DOMAIN nodes |-> IF nodes[i] = from THEN to ELSE <<nodes[i]>>])

\* $RS(segment, placeholder): the nodes of the hidden container of the segment
\* replace the placeholder, and the container is removed
CompleteSegment(doc, segmentID, placeholderID) ==
  LET content == doc.hidden[segmentID]
      placeholder == Node("placeholder", placeholderID)
  IN [doc EXCEPT
        !.main = Substitute(@, placeholder, content),
        !.hidden = [id \in SegmentIDs |->
                      IF id = segmentID THEN <<>>
                      ELSE Substitute(doc.hidden[id], placeholder, content)]]

\* $RC(boundary, segment): the nodes of the hidden container of the segment
\* replace the fallback of the boundary, which is marked complete
CompleteBoundaryIn(doc, boundaryID, segmentID) ==
  LET main == doc.main
      start == Instruction("startPendingSuspenseBoundary", boundaryID, "<!--$?-->")
      Starts == {i \in DOMAIN main : main[i] = start}
  IN IF Starts = {} THEN doc
     ELSE LET i == CHOOSE k \in Starts : TRUE
              j == CHOOSE k \in i .. Len(main) :
                     /\ main[k] = endSuspenseBoundary
                     /\ \A l \in i .. k - 1 : main[l] # endSuspenseBoundary
          IN [doc EXCEPT
                !.main = SubSeq(main, 1, i - 1) \o <<startCompletedSuspenseBoundary>>
                         \o doc.hidden[segmentID] \o SubSeq(main, j, Len(main)),
                !.hidden[segmentID] = <<>>]

\* the document after one more chunk of the stream
Parse(doc, c) ==
  CASE c.t = "startSegment" -> [doc EXCEPT !.open = c.h]
    [] c.t = "endSegment" -> [doc EXCEPT !.open = ""]
    [] c.t = "function" -> doc
    [] c.t = "completeSegment" -> CompleteSegment(doc, c.h, c.h)
    [] c.t = "completeBoundary" -> CompleteBoundaryIn(doc, c.h, "S:0")
    [] OTHER -> IF doc.open = "" THEN [doc EXCEPT !.main = Append(@, c)]
                ELSE [doc EXCEPT !.hidden[doc.open] = Append(@, c)]

RECURSIVE ParseAll(_, _)
ParseAll(doc, stream) ==
  IF stream = <<>> THEN doc ELSE ParseAll(Parse(doc, Head(stream)), Tail(stream))

Document(stream) == ParseAll(EmptyDocument, stream).main

\* the preamble of the response, and the boundary with its content in tree
\* order
FinalDocument ==
  writePreamble(createResources,
                createResponseState(<<>>, <<>>, Undefined, ContainerID,
                                    responseState.requiresEmbedding),
                FALSE).out
  \o <<startCompletedSuspenseBoundary, Node("div", "container")>>
  \o [i \in DOMAIN AsyncSegments |-> Node("text", AsyncSegments[i])]
  \o <<endSuspenseBoundary>>

C32_WitnessInline ==
  /\ "B:0" \in driver.completed
  /\ \A i \in DOMAIN destination : ~IsInstruction(destination[i])
  /\ Document(destination) = FinalDocument

(***************************************************************************)
(* The top-level <head> over the whole response.                           *)
(***************************************************************************)
HeadOpened == Count(destination, LAMBDA c : c = startTag("head", "top", c.q))
HeadClosed == Count(destination, LAMBDA c : c = endTag("head", "top", c.q))

\* C33 as stated: at the end of the response as many </head> as <head> tags
\* of the top level were written
C33_HeadBalanced ==
  driver.preamble /\ driver.postamble /\ segment = <<>> => HeadClosed = HeadOpened

\* what holds: the preamble writes at most one <head>, and a </head> of its
\* own only for a <head> it synthesized
C33_OneHeadOpened ==
  /\ HeadOpened <= 1
  /\ Count(destination, LAMBDA c : c = endTag("head", "top", "preamble")) <= HeadOpened

\* the response ended with one <head> written and closed twice
C33_ClosedTwice ==
  /\ driver.preamble /\ driver.postamble /\ segment = <<>>
  /\ HeadOpened = 1 /\ HeadClosed = 2

(***************************************************************************)
(* The fallback shell.                                                     *)
(***************************************************************************)
\* the open tags that a tree buffered in htmlChunks and headChunks
Buffered(out) == SelectSeq(out, LAMBDA c : c.q \in {"htmlChunks", "headChunks"})

WritesPreamble == lastOp'.op \in {"writeEarlyPreamble", "writePreamble"}

\* C34: prepareForFallback empties htmlChunks and headChunks and resets
\* rendered, leaves flushed and everything else as it was, and replaces
\* bootstrapChunks by fallbackBootstrapChunks exactly when there are some;
\* afterwards a preamble that finds something flushed writes none of the open
\* tags the fallback tree buffered, and one that finds nothing flushed writes
\* the open tags the fallback tree buffered
C34_Fallback ==
  [][/\ lastOp'.op = "prepareForFallback" =>
          /\ responseState'.htmlChunks = <<>> /\ responseState'.headChunks = <<>>
          /\ responseState'.rendered = NONE
          /\ responseState'.flushed = responseState.flushed
          /\ responseState'.bootstrapChunks =
               IF responseState.fallbackBootstrapChunks # Undefined
               THEN responseState.fallbackBootstrapChunks
               ELSE responseState.bootstrapChunks
          /\ \A f \in DOMAIN responseState \ {"htmlChunks", "headChunks", "rendered",
                                             "bootstrapChunks"} :
               responseState'[f] = responseState[f]
     /\ driver.fallback /\ WritesPreamble =>
          Buffered(lastOut') =
            IF responseState.flushed # NONE \/ lastOut' = <<>> THEN <<>>
            ELSE Buffered(responseState.htmlChunks \o responseState.headChunks)]_vars

\* the preamble was written early with the <html> of the shell, the shell
\* errored, the fallback tree rendered its own <html>, and the preamble wrote
\* no open tag: the fallback's <html> is still buffered
C34_Witness ==
  /\ driver.fallback /\ lastOp.op = "writePreamble"
  /\ responseState.htmlChunks # <<>>
  /\ Buffered(lastOut) = <<>>
  /\ Len(Buffered(destination)) = 1
  /\ BitAnd(responseState.flushed, HTML) # NONE

\* nothing was flushed when the shell errored: the preamble wrote the <html>
\* and the <head> of the fallback tree, and the fallback bootstrap scripts
\* replaced the bootstrap scripts
C34_WitnessUnflushed ==
  /\ driver.fallback /\ lastOp.op = "writePreamble"
  /\ Len(Buffered(lastOut)) = 2
  /\ Buffered(lastOut) = Buffered(destination)
  /\ responseState.bootstrapChunks = <<fallbackBootstrapScript>>

(***************************************************************************)
(* The bits of flushed.                                                    *)
(***************************************************************************)
Has(bits, tag) == BitAnd(bits, tag) # NONE

\* flushed holds only bits of HTML, HEAD and BODY, and loses none in a step
FlushedGrows ==
  /\ BitAnd(responseState'.flushed, HTML_HEAD_OR_BODY) = responseState'.flushed
  /\ BitAnd(responseState'.flushed, responseState.flushed) = responseState.flushed

\* C35: flushed holds only HTML, HEAD and BODY bits, never loses a bit, and
\* holds HEAD only together with HTML
C35_HeadImpliesHtml ==
  [][/\ FlushedGrows
     /\ Has(responseState'.flushed, HEAD) => Has(responseState'.flushed, HTML)]_vars

\* C35 amended: flushed holds only HTML, HEAD and BODY bits and never loses a
\* bit; it holds HEAD without HTML only in a response that requires no
\* embedding and whose tree rendered a <head> and no <html> at the top level:
\* a synthesized <head> is written only after an <html>
C35_HeadWithoutHtml ==
  [][/\ FlushedGrows
     /\ Has(responseState'.flushed, HEAD) /\ ~Has(responseState'.flushed, HTML) =>
          /\ ~responseState.requiresEmbedding
          /\ Count(destination', LAMBDA c : c = startTag("head", "top", c.q)) = 1
          /\ Count(destination', LAMBDA c : c = startTag("head", "top", "headChunks")) = 1
          /\ Count(destination', LAMBDA c : c = startTag("html", "top", c.q)) = 0]_vars

\* the early preamble flushed <html> and <head>, the shell errored, and the
\* preamble of the fallback shell added the <body>: no bit was lost
C35_Witness ==
  /\ driver.fallback /\ lastOp.op = "writePreamble"
  /\ responseState.flushed = HTML_HEAD_OR_BODY
  /\ responseState.rendered = NONE

\* a <head> rendered without an <html> was written by the preamble
C35_WitnessHeadAlone ==
  /\ lastOp.op = "writePreamble" /\ responseState.flushed = HEAD

(***************************************************************************)
(* inShell.                                                                *)
(***************************************************************************)
InShell(res, href) == href \in DOMAIN res.stylesMap /\ res.stylesMap[href].inShell

\* C36: a style resource gets inShell only in a preamble flush that writes its
\* <link>, inShell implies flushed and is never reset; no other step, a
\* boundary completion included, sets it
C36_InShell ==
  [][\A href \in DOMAIN resources'.stylesMap :
       LET r == resources'.stylesMap[href]
       IN /\ r.inShell => r.flushed
          /\ InShell(resources, href) => r.inShell
          /\ r.inShell /\ ~InShell(resources, href) =>
               /\ WritesPreamble
               /\ \E i \in DOMAIN lastOut' :
                    lastOut'[i] = StylesheetLink(href, r.precedence, "precedences")]_vars

\* after the shell was flushed with one stylesheet, a boundary completed with
\* another one of the same precedence: it is flushed and not in the shell
C36_Witness ==
  /\ driver.preamble /\ driver.completed # {}
  /\ \E a, b \in DOMAIN resources.stylesMap :
       /\ resources.stylesMap[a].inShell /\ resources.stylesMap[a].flushed
       /\ ~resources.stylesMap[b].inShell /\ resources.stylesMap[b].flushed
       /\ resources.stylesMap[a].precedence = resources.stylesMap[b].precedence

\* a stylesheet preinitialized after the shell flushed its precedence
C36_WitnessLate ==
  /\ driver.preamble /\ lastOp.op = "preinit"
  /\ \E a, b \in DOMAIN resources.stylesMap :
       /\ resources.stylesMap[a].inShell
       /\ ~resources.stylesMap[b].inShell /\ ~resources.stylesMap[b].flushed
       /\ resources.stylesMap[a].precedence = resources.stylesMap[b].precedence

(***************************************************************************)
(* Nested renders.                                                         *)
(***************************************************************************)
\* the Resources of the innermost bracket that is open, Null if none is
Innermost(prepared) == IF prepared = <<>> THEN Null ELSE prepared[Len(prepared)]

\* C37: in every nesting of prepareToRenderResources and
\* finishRenderingResources, of one request or two, the current Resources is
\* the one the innermost open bracket prepared and Null outside every bracket,
\* so that a finish restores what was current before the matching prepare; and
\* preload and preinit change no Resources but the innermost prepared one
C37_Nesting ==
  [][/\ currentResources' = Innermost(driver'.prepared)
     /\ Len(currentResourcesStack') = Len(driver'.prepared)
     /\ lastOp'.op = "finishRenderingResources" =>
          currentResources' = Innermost(SubSeq(driver.prepared, 1, Len(driver.prepared) - 1))
     /\ lastOp'.op \in {"preload", "preinit"} =>
          /\ Innermost(driver.prepared) # RequestResources => resources' = resources
          /\ Innermost(driver.prepared) # OtherResources =>
               otherResources' = otherResources]_vars

\* a render of the other request inside a render of the request has finished:
\* the request is current again, and each registry holds what was preloaded
\* while it was the innermost
C37_Witness ==
  /\ lastOp.op = "finishRenderingResources"
  /\ driver.prepared = <<RequestResources>>
  /\ currentResources = RequestResources
  /\ DOMAIN resources.preloadsMap = {"a"}
  /\ DOMAIN otherResources.preloadsMap = {"b"}

\* every bracket was closed after something was registered in the other request
C37_WitnessOutermost ==
  /\ lastOp.op = "finishRenderingResources"
  /\ currentResourcesStack = <<>> /\ currentResources = Null
  /\ otherResources # createResources

(***************************************************************************)
(* The format context of the children of an element.                       *)
(***************************************************************************)
\* C38: in every chain from the root context, the children of an element are
\* in the scope of a <noscript> exactly when the element is a noscript or is
\* in that scope itself, never in ROOT_HTML_MODE, and in HTML_HTML_MODE only
\* if the element is an html rendered in ROOT_HTML_MODE
C38_ChildContext ==
  [][lastOp'.op = "pushStartInstance" =>
       LET parent == task.formatContext
           child == task'.formatContext
           type == lastOp'.type
       IN /\ child.noscriptTagInScope <=> (type = "noscript" \/ parent.noscriptTagInScope)
          /\ child.insertionMode # ROOT_HTML_MODE
          /\ child.insertionMode = HTML_HTML_MODE =>
               type = "html" /\ parent.insertionMode = ROOT_HTML_MODE]_vars

\* what holds of the modes: HTML_HTML_MODE starts at an html rendered in
\* ROOT_HTML_MODE, and every element below it that getChildFormatContext has
\* no case for hands it on to its children
C38_ModeHandedOn ==
  [][lastOp'.op = "pushStartInstance" =>
       LET parent == task.formatContext
           child == task'.formatContext
           type == lastOp'.type
       IN /\ child.noscriptTagInScope <=> (type = "noscript" \/ parent.noscriptTagInScope)
          /\ child.insertionMode # ROOT_HTML_MODE
          /\ child.insertionMode = HTML_HTML_MODE =>
               \/ type = "html" /\ parent.insertionMode = ROOT_HTML_MODE
               \/ type \notin DOMAIN SpecialParents /\ child = parent]_vars

\* the children of a <body> inside an <html> are in HTML_HTML_MODE
C38_BodyInHtmlMode ==
  /\ lastOp.op = "pushStartInstance" /\ lastOp.type = "body"
  /\ Len(task.stack) = 2 /\ task.stack[1].type = "html"
  /\ task.formatContext.insertionMode = HTML_HTML_MODE

(***************************************************************************)
(* The bytes that reach the destination.                                   *)
(***************************************************************************)
\* C39: after completeWriting the bytes enqueued are the bytes of the chunks
\* written, in order, no more and no fewer; writtenBytes never exceeds the
\* length of the view; and a chunk longer than the view is rejected
C39_BytesPreserved ==
  /\ streamConfig.writtenBytes <= ViewSize
  /\ lastOp.op = "completeWriting" => Flatten(destination) = Flatten(driver.written)
  /\ lastOp.op \in {"writeChunk", "writeChunkAndReturn"} /\ lastOp.mode > ViewSize =>
       lastOp.x = "throw"

\* what holds: every view enqueued by completeWriting has the length of the
\* view, whatever was written, and starts with the bytes of the chunks written
\* since beginWriting
C39_WholeViewEnqueued ==
  /\ streamConfig.writtenBytes <= ViewSize
  /\ \A i \in DOMAIN destination : Len(destination[i]) = ViewSize
  /\ lastOp.op = "completeWriting" =>
       LET bytes == Flatten(driver.written)
           all == Flatten(destination)
       IN Len(bytes) <= Len(all)

\* one byte was written and the whole view was enqueued
C39_Padded ==
  /\ lastOp.op = "completeWriting"
  /\ driver.written = <<<<1>>>>
  /\ destination = <<[i \in 1 .. ViewSize |-> IF i = 1 THEN 1 ELSE 0]>>

\* a chunk that does not fit what is left of the view made writeChunk throw
C39_FlushThrows ==
  /\ lastOp.op = "writeChunk" /\ lastOp.x = "throw"
  /\ lastOp.mode <= ViewSize

(***************************************************************************)
(* Providers.                                                              *)
(***************************************************************************)
\* C40: popProvider restores what the matching pushProvider replaced: the
\* value and the changed bits of the context, propagationSigil,
\* propagationHasChangedBits and the height of the value stack, at every depth
\* of nesting of providers of one or of several contexts
C40_PopRestores ==
  [][lastOp'.op = "popProvider" =>
       LET fiber == driver.providers[Len(driver.providers)]
       IN /\ fiber.context = lastOp'.type
          /\ [currentValue |-> newContext'.contexts[fiber.context].currentValue,
              currentChangedBits |->
                newContext'.contexts[fiber.context].currentChangedBits,
              propagationSigil |-> newContext'.propagationSigil,
              propagationHasChangedBits |-> newContext'.propagationHasChangedBits,
              height |-> Len(newContext'.valueStack)] = fiber.before]_vars

\* a provider of A inside a provider of A inside a provider of B: the inner
\* one was popped and the value, the bits and the sigil of the middle one are
\* back
C40_Witness ==
  /\ lastOp.op = "popProvider" /\ lastOp.type = "A"
  /\ Len(driver.providers) = 2
  /\ driver.providers[1].context = "B" /\ driver.providers[2].context = "A"
  /\ newContext.contexts["A"] = [currentValue |-> 1, currentChangedBits |-> 1]
  /\ newContext.propagationSigil = 2
  /\ newContext.propagationHasChangedBits
  /\ newContext.sigils = 3

====
